---------------------------- MODULE Spec2Model ----------------------------
(***************************************************************************)
(* A model of JSSecretScanner (src/js_scanner.py): the asset locator       *)
(* (_extract_js_urls), the 15-stage quality filter                         *)
(* (_is_high_quality_result), the similarity collapser                     *)
(* (_filter_similar_items), the match extractor (_analyze_js_content), the *)
(* merge step (_merge_findings) and the scan orchestration (scan_domain).  *)
(*                                                                         *)
(* Python strings are TLA+ strings; TLC evaluates Len, Head, Tail, SubSeq  *)
(* and \o on them.  A character is a string of length 1.  The model keeps  *)
(* to printable ASCII plus tab and newline.                                *)
(***************************************************************************)
EXTENDS Integers, Sequences, FiniteSets, TLC

VARIABLES
    \* ---- frame of the pure function under check (arguments, return values)
    args,           \* the arguments of the call, a record
    ret,            \* the values returned so far, a sequence
    phase,          \* "called", "returned", ...
    \* ---- the scanner object (JSSecretScanner.__init__)
    max_js_files,   \* self.max_js_files
    found_js_urls,  \* self.found_js_urls
    lock,           \* self.lock: the holder, or "free"
    \* ---- the frame of scan_domain
    result,         \* the result dict of lines 805-812
    \* ---- one frame of _extract_js_urls per thread
    page,           \* the markup each invocation reads
    xpc,            \* the position of each invocation
    xi,             \* the loop index of each invocation
    xk,             \* the textual rule each invocation is at
    new_js_urls,    \* the list each invocation returns
    \* ---- the scanner object, continued, and the analysis of the assets
    max_workers,    \* self.max_workers
    analyzed_js,    \* self.analyzed_js: the md5 digests of the locators seen
    inline_result,  \* what _analyze_js_content gave for the inline script
    futures,        \* one record per call of _analyze_single_js submitted
    merging         \* the threads inside _merge_findings on result['findings']

fnVars   == <<args, ret, phase>>
scanVars == <<max_js_files, found_js_urls, lock, result>>
xVars    == <<page, xpc, xi, xk, new_js_urls>>
poolVars == <<max_workers, analyzed_js, inline_result, futures, merging>>
vars     == <<args, ret, phase, max_js_files, found_js_urls, lock, result,
              page, xpc, xi, xk, new_js_urls,
              max_workers, analyzed_js, inline_result, futures, merging>>

-----------------------------------------------------------------------------
(* Strings *)

Ch(s, i) == SubSeq(s, i, i)

Digits  == "0123456789"
Lowers  == "abcdefghijklmnopqrstuvwxyz"
Uppers  == "ABCDEFGHIJKLMNOPQRSTUVWXYZ"
\* The printable ASCII characters in code-point order: 32 (space) to 95, and
\* 97 to 126 (the grave accent, 96, is left out: no string of the model has it).
AsciiLo == " !\"#$%&'()*+,-./0123456789:;<=>?@ABCDEFGHIJKLMNOPQRSTUVWXYZ[\\]^_"
AsciiHi == "abcdefghijklmnopqrstuvwxyz{|}~"

InStr(c, s) == \E i \in 1..Len(s) : Ch(s, i) = c

Alphas  == Lowers \o Uppers
Alnums  == Digits \o Alphas
Spaces  == " \t\n\r"

IsDigitCh(c) == InStr(c, Digits)
IsAlphaCh(c) == InStr(c, Alphas)
IsAlnumCh(c) == InStr(c, Alnums)
IsSpaceCh(c) == InStr(c, Spaces)

\* ord(c): tab and newline sort before every printable character.
Ord(c) ==
    IF c = "\t" THEN 9
    ELSE IF c = "\n" THEN 10
    ELSE IF c = "\r" THEN 13
    ELSE IF InStr(c, AsciiLo)
         THEN 31 + (CHOOSE i \in 1..Len(AsciiLo) : Ch(AsciiLo, i) = c)
         ELSE 96 + (CHOOSE i \in 1..Len(AsciiHi) : Ch(AsciiHi, i) = c)

LowerCh(c) ==
    IF InStr(c, Uppers)
    THEN Ch(Lowers, CHOOSE i \in 1..26 : Ch(Uppers, i) = c)
    ELSE c

\* str.lower(), by halves (a locator may have 800 characters)
RECURSIVE Lower(_)
Lower(s) ==
    IF Len(s) <= 1 THEN LowerCh(s)
    ELSE Lower(SubSeq(s, 1, Len(s) \div 2))
            \o Lower(SubSeq(s, Len(s) \div 2 + 1, Len(s)))

\* every character of s is in the class cls (a string of characters)
AllIn(s, cls) == \A i \in 1..Len(s) : InStr(Ch(s, i), cls)

Count(s, c) == Cardinality({i \in 1..Len(s) : Ch(s, i) = c})

StartsWith(s, p) == Len(s) >= Len(p) /\ SubSeq(s, 1, Len(p)) = p
EndsWith(s, p)   == Len(s) >= Len(p) /\ SubSeq(s, Len(s) - Len(p) + 1, Len(s)) = p
\* sub in s
Contains(s, sub) ==
    \E i \in 1..(Len(s) - Len(sub) + 1) : SubSeq(s, i, i + Len(sub) - 1) = sub

SetMin(S) == CHOOSE i \in S : \A j \in S : i <= j
SetMax(S) == CHOOSE i \in S : \A j \in S : i >= j

\* s with its leading (trailing) characters of the class cls removed
LStripSet(s, cls) ==
    LET keep == {i \in 1..Len(s) : ~InStr(Ch(s, i), cls)} IN
    IF keep = {} THEN "" ELSE SubSeq(s, SetMin(keep), Len(s))
RStripSet(s, cls) ==
    LET keep == {i \in 1..Len(s) : ~InStr(Ch(s, i), cls)} IN
    IF keep = {} THEN "" ELSE SubSeq(s, 1, SetMax(keep))

\* str.strip()
Strip(s) == RStripSet(LStripSet(s, Spaces), Spaces)
\* str.strip('\'"') and str.strip('/')
StripQuotes(s)  == RStripSet(LStripSet(s, "'\""), "'\"")
StripSlashes(s) == RStripSet(LStripSet(s, "/"), "/")

\* str.split(c) for a one-character separator
RECURSIVE Split(_, _)
Split(s, c) ==
    LET idx == {i \in 1..Len(s) : Ch(s, i) = c} IN
    IF idx = {} THEN <<s>>
    ELSE LET k == SetMin(idx) IN
         <<SubSeq(s, 1, k - 1)>> \o Split(SubSeq(s, k + 1, Len(s)), c)

\* str.replace(c, '') for a one-character c
RECURSIVE Remove(_, _)
Remove(s, c) ==
    IF s = "" THEN ""
    ELSE (IF Head(s) = c THEN "" ELSE Head(s)) \o Remove(Tail(s), c)

\* set(s)
CharSet(s) == {Ch(s, i) : i \in 1..Len(s)}

\* s < t in Python's order on str (code points, then length)
RECURSIVE StrLess(_, _)
StrLess(s, t) ==
    IF t = "" THEN FALSE
    ELSE IF s = "" THEN TRUE
    ELSE IF Head(s) = Head(t) THEN StrLess(Tail(s), Tail(t))
    ELSE Ord(Head(s)) < Ord(Head(t))

\* sorted(list(S)) for a set of strings
RECURSIVE SortedList(_)
SortedList(S) ==
    IF S = {} THEN <<>>
    ELSE LET m == CHOOSE x \in S : \A y \in S : x = y \/ StrLess(x, y) IN
         <<m>> \o SortedList(S \ {m})

Range(f) == {f[i] : i \in DOMAIN f}

-----------------------------------------------------------------------------
(* The quality filter: _is_high_quality_result, lines 457-610.  Every     *)
(* stage is a predicate over the stripped match; QualityOutcome composes   *)
(* them in the order of the code and records the stage that decided.      *)

IsAllDigits(s) == s # "" /\ AllIn(s, Digits)

\* re.match(r'^\s*\)\s*[,;]?\s*$', m) and the same with '}': m is stripped
ClosingShape(m, c) ==
    m # "" /\ Head(m) = c /\ LStripSet(Tail(m), Spaces) \in {"", ",", ";"}

\* re.match(r'^kw\s*\(', m, re.IGNORECASE)
KeywordCall(m, kw) ==
    /\ StartsWith(Lower(m), kw)
    /\ StartsWith(LStripSet(SubSeq(m, Len(kw) + 1, Len(m)), Spaces), "(")

\* re.match(r'^kw\s+', m, re.IGNORECASE)
KeywordSpace(m, kw) ==
    /\ StartsWith(Lower(m), kw)
    /\ Len(m) > Len(kw)
    /\ IsSpaceCh(Ch(m, Len(kw) + 1))

\* stage 3: code_indicators, lines 474-500
LooksLikeCode(m) ==
    \/ ClosingShape(m, ")")
    \/ ClosingShape(m, "}")
    \/ m \in {",", ";"}
    \/ Lower(m) \in {"null", "true", "false", "undefined"}
    \/ IsAllDigits(m)
    \/ (Len(m) = 1 /\ IsAlphaCh(m))
    \/ KeywordCall(m, "function")
    \/ \E kw \in {"var", "let", "const"} : KeywordSpace(m, kw)
    \/ \E kw \in {"if", "for", "while"} : KeywordCall(m, kw)
    \/ \E kw \in {"return", "console.", "window.", "document."} :
          StartsWith(Lower(m), kw)

\* stage 4: code_chars > len(match) * 0.3, lines 503-505
TooManyBrackets(m) ==
    LET code_chars == Count(m, "(") + Count(m, ")") + Count(m, "{")
                      + Count(m, "}") + Count(m, "[") + Count(m, "]")
    IN  10 * code_chars > 3 * Len(m)

\* stage 5: match.count(' ') > len(match) * 0.4, lines 508-509
TooManySpaces(m) == 10 * Count(m, " ") > 4 * Len(m)

\* stage 6: common_names, lines 512-514
common_names ==
    {"length", "width", "height", "value", "name", "type", "class", "id",
     "style", "href", "src", "alt", "title"}

\* stage 7, emails: ^[a-zA-Z0-9._%+-]+@[a-zA-Z0-9.-]+\.[a-zA-Z]{2,}$
EmailLocalChars  == Alnums \o "._%+-"
EmailDomainChars == Alnums \o ".-"
EmailShape(m) ==
    \E a \in 1..Len(m) : \E d \in 1..Len(m) :
        /\ Ch(m, a) = "@" /\ Ch(m, d) = "."
        /\ a > 1 /\ d > a + 1 /\ Len(m) - d >= 2
        /\ AllIn(SubSeq(m, 1, a - 1), EmailLocalChars)
        /\ AllIn(SubSeq(m, a + 1, d - 1), EmailDomainChars)
        /\ AllIn(SubSeq(m, d + 1, Len(m)), Alphas)

\* stage 7, phones, lines 521-524
PhoneShape(m) ==
    IF IsAllDigits(m)
    THEN Len(m) \in {11, 10} /\ (StartsWith(m, "1") \/ StartsWith(m, "0"))
    ELSE \E p \in {"", "86", "86-"} :
            /\ StartsWith(m, p)
            /\ IsAllDigits(SubSeq(m, Len(p) + 1, Len(m)))
            /\ Len(m) - Len(p) \in 10..11

\* int(part): an optional sign and decimal digits (no string of the model has
\* an underscore or inner blanks); ParsesInt is "no ValueError".
IntBody(p) == IF p # "" /\ Head(p) \in {"+", "-"} THEN Tail(p) ELSE p
ParsesInt(p) == IsAllDigits(IntBody(Strip(p)))
RECURSIVE DigitsVal(_)
DigitsVal(s) ==
    IF s = "" THEN 0
    ELSE 10 * DigitsVal(SubSeq(s, 1, Len(s) - 1)) + (Ord(Ch(s, Len(s))) - 48)
IntOf(p) ==
    LET q == Strip(p) IN
    IF StartsWith(q, "-") THEN 0 - DigitsVal(IntBody(q)) ELSE DigitsVal(IntBody(q))

\* stage 7, ip_addresses, line 527
IpParts(m) == Split(Split(m, ":")[1], ".")
\* line 530 with the except of 531-532: all(0 <= int(part) <= 255 ...) stops at
\* the first part out of range, a part that does not parse raises ValueError
\* and gives False; both ways the result is False.
IpOctetsValid(parts) ==
    \A i \in 1..Len(parts) :
        ParsesInt(parts[i]) /\ 0 <= IntOf(parts[i]) /\ IntOf(parts[i]) <= 255

IsPathCategory(category) == category \in {"api_endpoints", "sensitive_paths"}

\* stage 7, urls_domains, lines 541-546
UrlDomainShape(m) ==
    IF ~Contains(m, ".") THEN FALSE
    ELSE IF StartsWith(m, "http://") \/ StartsWith(m, "https://") \/ StartsWith(m, "//")
    THEN TRUE
    ELSE LET parts == Split(m, ".") IN
         Len(parts) >= 2 /\ Len(parts[Len(parts)]) >= 2

\* JwtShape with the segment length test off by one (>= 10 for > 10).
JwtShapeOffByOne(m) ==
    LET parts == Split(m, ".") IN
    Len(parts) = 3 /\ \A i \in 1..Len(parts) : Len(parts[i]) >= 10

\* stage 7, jwt_tokens, lines 550-551
JwtShape(m) ==
    LET parts == Split(m, ".") IN
    Len(parts) = 3 /\ \A i \in 1..Len(parts) : Len(parts[i]) > 10

\* Whether stage 7 returns for this match (lines 517-551): emails, phones,
\* urls_domains and jwt_tokens always return; ip_addresses returns only when
\* the match has 4 parts (no else at line 528); the path categories return at
\* line 536 or at line 538.
Stage7Returns(m, category) ==
    CASE category \in {"emails", "phones", "urls_domains", "jwt_tokens"} -> TRUE
      [] category = "ip_addresses" -> Len(IpParts(m)) = 4
      [] IsPathCategory(category) ->
            \/ (~StartsWith(m, "/") /\ ~Contains(m, "/"))
            \/ (Count(m, ".") > 0 /\ Count(m, "/") <= 1)
      [] OTHER -> FALSE

\* The value stage 7 returns, when it returns.
Stage7Value(m, category) ==
    CASE category = "emails" -> EmailShape(m)
      [] category = "phones" -> PhoneShape(m)
      [] category = "ip_addresses" -> IpOctetsValid(IpParts(m))
      [] IsPathCategory(category) ->
            IF ~StartsWith(m, "/") /\ ~Contains(m, "/") THEN FALSE
            ELSE Len(Remove(Remove(m, "/"), ".")) > 3
      [] category = "urls_domains" -> UrlDomainShape(m)
      [] category = "jwt_tokens" -> JwtShape(m)
      [] OTHER -> FALSE

\* stage 8: re.search(r'<[^>]+>', match), line 554
HasHtmlTag(m) ==
    \E i \in 1..Len(m) : \E j \in 1..Len(m) :
        /\ Ch(m, i) = "<" /\ Ch(m, j) = ">" /\ j >= i + 2
        /\ \A k \in (i + 1)..(j - 1) : Ch(m, k) # ">"

\* math.log2(k) in millionths, rounded, for k up to 128 (line 624)
Log2Micro == <<
    0, 1000000, 1584963, 2000000, 2321928, 2584963, 2807355, 3000000,
    3169925, 3321928, 3459432, 3584963, 3700440, 3807355, 3906891, 4000000,
    4087463, 4169925, 4247928, 4321928, 4392317, 4459432, 4523562, 4584963,
    4643856, 4700440, 4754888, 4807355, 4857981, 4906891, 4954196, 5000000,
    5044394, 5087463, 5129283, 5169925, 5209453, 5247928, 5285402, 5321928,
    5357552, 5392317, 5426265, 5459432, 5491853, 5523562, 5554589, 5584963,
    5614710, 5643856, 5672425, 5700440, 5727920, 5754888, 5781360, 5807355,
    5832890, 5857981, 5882643, 5906891, 5930737, 5954196, 5977280, 6000000,
    6022368, 6044394, 6066089, 6087463, 6108524, 6129283, 6149747, 6169925,
    6189825, 6209453, 6228819, 6247928, 6266787, 6285402, 6303781, 6321928,
    6339850, 6357552, 6375039, 6392317, 6409391, 6426265, 6442943, 6459432,
    6475733, 6491853, 6507795, 6523562, 6539159, 6554589, 6569856, 6584963,
    6599913, 6614710, 6629357, 6643856, 6658211, 6672425, 6686501, 6700440,
    6714246, 6727920, 6741467, 6754888, 6768184, 6781360, 6794416, 6807355,
    6820179, 6832890, 6845490, 6857981, 6870365, 6882643, 6894818, 6906891,
    6918863, 6930737, 6942515, 6954196, 6965784, 6977280, 6988685, 7000000 >>

RECURSIVE SumCLogC(_, _)
SumCLogC(text, chars) ==
    IF chars = {} THEN 0
    ELSE LET c == CHOOSE x \in chars : TRUE IN
         Count(text, c) * Log2Micro[Count(text, c)] + SumCLogC(text, chars \ {c})

\* _calculate_entropy, lines 612-628, times len(text), in millionths of a bit:
\* -sum p*log2(p) = log2(n) - (1/n) * sum c*log2(c) over the counts c.
EntropyTimesLen(text) ==
    IF text = "" THEN 0
    ELSE Len(text) * Log2Micro[Len(text)] - SumCLogC(text, CharSet(text))

\* stage 10: entropy < 3.5, lines 562-566
LowEntropy(m, quality, category) ==
    /\ category \in {"secrets", "jwt_tokens"}
    /\ quality \in {"critical", "high"}
    /\ 2 * EntropyTimesLen(m) < 7 * 1000000 * Len(m)

\* stage 11: len(set(match)) < len(match) * 0.3, line 569
TooRepetitive(m) == 10 * Cardinality(CharSet(m)) < 3 * Len(m)

\* IsTestData without re.IGNORECASE.
IsTestDataCaseSensitive(m) ==
    \/ \E p \in {"test", "example", "demo", "sample", "placeholder"} :
          StartsWith(m, p)
    \/ \E p \in {"12345", "abcde", "lorem", "ipsum"} : Contains(m, p)

\* stage 12: test_patterns, lines 573-587 (re.search, re.IGNORECASE; ^ is
\* the start of the string)
IsTestData(m) ==
    \/ \E p \in {"test", "example", "demo", "sample", "placeholder"} :
          StartsWith(Lower(m), p)
    \/ \E p \in {"12345", "abcde", "lorem", "ipsum"} : Contains(Lower(m), p)

\* stage 13: len(match) < 6 and match.isascii() and match.isalnum(), line 590
ShortAlnum(m) == Len(m) < 6 /\ m # "" /\ AllIn(m, Alnums)

\* stage 14, lines 594-599
BadPath(m, category) ==
    /\ IsPathCategory(category)
    /\ LET path_parts == Split(StripSlashes(m), "/") IN
       \/ \E i \in 1..Len(path_parts) : Len(path_parts[i]) = 0
       \/ (Len(path_parts) < 2 /\ Len(m) < 8)

\* stage 15, lines 602-605
BelowTier(m, quality) ==
    \/ (quality = "critical" /\ Len(m) < 8)
    \/ (quality = "high" /\ Len(m) < 5)

Decided(accept, stage) == [accept |-> accept, stage |-> stage]

\* _is_high_quality_result with the stage that returned; stage 15 with
\* accept = TRUE is the return True of line 607.
QualityOutcome(match0, pattern_info, category) ==
    LET match == Strip(match0)
        quality == pattern_info.quality
    IN  IF Len(match) < pattern_info.min_length THEN Decided(FALSE, 1)
        ELSE IF Lower(match) \in {Lower(e) : e \in pattern_info.exclude}
             THEN Decided(FALSE, 2)
        ELSE IF LooksLikeCode(match) THEN Decided(FALSE, 3)
        ELSE IF TooManyBrackets(match) THEN Decided(FALSE, 4)
        ELSE IF TooManySpaces(match) THEN Decided(FALSE, 5)
        ELSE IF Lower(match) \in common_names THEN Decided(FALSE, 6)
        ELSE IF Stage7Returns(match, category)
             THEN Decided(Stage7Value(match, category), 7)
        ELSE IF HasHtmlTag(match) THEN Decided(FALSE, 8)
        ELSE IF StartsWith(match, "data:image/") THEN Decided(FALSE, 9)
        ELSE IF LowEntropy(match, quality, category) THEN Decided(FALSE, 10)
        ELSE IF TooRepetitive(match) THEN Decided(FALSE, 11)
        ELSE IF IsTestData(match) THEN Decided(FALSE, 12)
        ELSE IF ShortAlnum(match) THEN Decided(FALSE, 13)
        ELSE IF BadPath(match, category) THEN Decided(FALSE, 14)
        ELSE IF BelowTier(match, quality) THEN Decided(FALSE, 15)
        ELSE Decided(TRUE, 15)

IsHighQualityResult(match, pattern_info, category) ==
    QualityOutcome(match, pattern_info, category).accept

-----------------------------------------------------------------------------
(* The rule corpus: _init_patterns, lines 76-289.  A rule of the model is  *)
(* the metadata of one rule of the source, named by its line, and the      *)
(* literal its capture group begins with ("" when it begins with none).    *)

PatternInfo(category, line, prefix, min_length, quality, exclude) ==
    [category |-> category, line |-> line, prefix |-> prefix,
     min_length |-> min_length, quality |-> quality, exclude |-> exclude]

password_exclude ==
    {"password", "test123", "123456", "admin", "test", "demo", "example", "changeme"}

Corpus ==
    { PatternInfo("api_endpoints", 82, "/api/", 5, "critical", {}),
      PatternInfo("api_endpoints", 84, "/rest/", 6, "critical", {}),
      PatternInfo("api_endpoints", 88, "/rpc/", 5, "high", {}),
      PatternInfo("api_endpoints", 95, "/", 5, "high", {}),
      PatternInfo("api_endpoints", 102, "/data/", 6, "medium", {}),
      PatternInfo("api_endpoints", 112, "/cdn/", 5, "low", {}),
      PatternInfo("sensitive_paths", 119, "/config/", 8, "critical", {}),
      PatternInfo("sensitive_paths", 122, "/.env", 5, "critical", {}),
      PatternInfo("sensitive_paths", 134, "/login", 6, "medium", {}),
      PatternInfo("sensitive_paths", 137, "/auth", 5, "medium", {}),
      PatternInfo("sensitive_paths", 156, "/test/", 6, "medium", {}),
      PatternInfo("secrets", 188, "wx", 17, "high", {}),
      PatternInfo("secrets", 191, "", 12, "critical", {}),
      PatternInfo("secrets", 192, "", 12, "critical", {}),
      PatternInfo("secrets", 193, "", 12, "critical", {}),
      PatternInfo("secrets", 194, "", 12, "critical", {}),
      PatternInfo("secrets", 205, "", 8, "high", password_exclude),
      PatternInfo("secrets", 209, "", 8, "medium", {}),
      PatternInfo("secrets", 215, "", 6, "critical", {}),
      PatternInfo("jwt_tokens", 225, "eyJ", 50, "critical", {}),
      PatternInfo("emails", 233, "", 6, "medium", {}),
      PatternInfo("phones", 238, "1", 11, "medium", {}),
      PatternInfo("phones", 239, "86", 13, "medium", {}),
      PatternInfo("phones", 240, "0", 10, "low", {}),
      PatternInfo("id_cards", 245, "", 18, "high", {}),
      PatternInfo("ip_addresses", 250, "", 7, "high", {}),
      PatternInfo("urls_domains", 255, "http", 10, "medium", {}),
      PatternInfo("urls_domains", 256, "", 6, "medium", {}),
      PatternInfo("database_urls", 262, "", 15, "critical", {}),
      PatternInfo("database_urls", 265, "", 3, "medium", {}),
      PatternInfo("cloud_config", 270, "", 3, "medium", {}),
      PatternInfo("cloud_config", 271, "", 3, "high", {}),
      PatternInfo("webhooks", 277, "", 10, "high", {}),
      PatternInfo("crypto_info", 286, "", 3, "low", {}),
      PatternInfo("crypto_info", 287, "", 3, "medium", {}) }

Categories == {r.category : r \in Corpus}

-----------------------------------------------------------------------------
(* Candidates handed to the filter.                                        *)

\* Bounds of the generated candidates.
MaxIpParts  == 5
MaxJwtSegs  == 4

\* The strings made of k parts of pool joined by sep.
RECURSIVE Joined(_, _, _)
Joined(pool, sep, k) ==
    IF k <= 1 THEN pool
    ELSE {p \o sep \o r : p \in pool, r \in Joined(pool, sep, k - 1)}

GenericCandidates ==
    { "", ")", "} ;", ";", "null", "True", "12345678", "x", "function (a)",
      "var x", "return", "window.location", "((a))[b]", "a b c d e",
      "Value", "<b>bold</b>xx", "data:image/png;base64", "aaaaaaaaaaab",
      "test123456789012", "ab12CD34ef56GH78", "  ab12CD34ef56GH78  ",
      "abc12", "Password", "changeme", "hunter2pw", "s3cr3t", "s3cr3tX9",
      "myLoremKey99", "Sample-Key-For-Docs", "wxa1b2c3d4e5f6a7b8",
      "aabbaabbaabbaabb", "q1w2e3r4t5y6u7i8" }

PathCandidates ==
    { "/.env", "/.envs", "/.env.x", "/.env.local", "/.env/prod", "/api/users/123",
      "/api/users/456", "/api//users", "/api/v1", "/v1/ab", "/login", "/auth/",
      "/a.b", "api.php", "/config/app.json", "/x.php?id=1", "/rpc/call",
      "/test/unit", "/cdn/lib", "/api/../etc", "/a.php", "/api/users//" }

IpCandidates ==
    LET hosts == UNION {Joined({"10", "256", "x"}, ".", k) : k \in 1..MaxIpParts}
    IN  hosts \cup {h \o ":8080" : h \in hosts}

JwtCandidates ==
    UNION {Joined({"eyJhbGciOi", "eyJhbGciOiJ", "eyJhbGciOiJhbGciOiJhbGci",
                   "eyJhbGciOiJIUzI1NiIsInR5cCI6IkpXVCJ9"},
                  ".", k) : k \in 1..MaxJwtSegs}

EmailCandidates ==
    { "a@b.cd", "user@example.com", "a@b.c", "user@@ex.com", "@example.com",
      "user.name+tag@mail.example.org", "user@host", "user@example.c0m" }

PhoneCandidates ==
    { "13812345678", "8613812345678", "86-13812345678", "01012345678",
      "0101234567", "23812345678", "138-1234-5678", "010-12345678",
      "861381234567" }

UrlCandidates ==
    { "http://a.io/x", "https://example.com", "//cdn.example.com", "example.com",
      "example.c", "localhost!", "a.b.cd", "http://localhost" }

OtherCandidates ==
    { "11010519900307123X", "mysql://u:p@h/db", "jdbc:mysql://h:3306/d", "mydb",
      "us-east-1", "my-bucket", "https://hooks.example.com/x", "md5", "CryptoJS",
      "AES-256-CBC" }

\* The candidates of a category, beyond the generic ones.
FamilyOf(category) ==
    CASE IsPathCategory(category) -> PathCandidates
      [] category = "ip_addresses" -> IpCandidates
      [] category = "jwt_tokens" -> JwtCandidates
      [] category = "emails" -> EmailCandidates
      [] category = "phones" -> PhoneCandidates
      [] category = "urls_domains" -> UrlCandidates
      [] OTHER -> OtherCandidates

\* The candidates the filter is called with for a rule: the generic ones
\* (for ip_addresses, dotted candidates only), and those of the rule's
\* category that begin with the literal the rule's capture group begins with.
CandidatesFor(pattern_info) ==
    (IF pattern_info.category = "ip_addresses" THEN {} ELSE GenericCandidates)
    \cup
    {c \in FamilyOf(pattern_info.category) : StartsWith(c, pattern_info.prefix)}

-----------------------------------------------------------------------------
(* SpecFilter: one call of _is_high_quality_result on a candidate, a rule  *)
(* of the corpus and the rule's category.                                 *)

\* {} as a dict: the function of empty domain
EmptyDict == [c \in {} |-> <<>>]

\* result as built at lines 805-812 (domain and scan_time are left out)
NewResult ==
    [findings |-> EmptyDict, js_files_count |-> 0, success |-> FALSE,
     error |-> "None"]

\* line 865: result['execution_time'] = time.time() - start_time; the number
\* of seconds is written "elapsed"
WithExecutionTime(r) ==
    [k \in DOMAIN r \cup {"execution_time"} |->
        IF k = "execution_time" THEN "elapsed" ELSE r[k]]

\* no asset was submitted, nothing was analyzed
PoolIdle ==
    /\ max_workers = 1
    /\ analyzed_js = {}
    /\ inline_result = <<>>
    /\ futures = <<>>
    /\ merging = {}

ScannerIdle ==
    /\ max_js_files = 1
    /\ found_js_urls = {}
    /\ lock = "free"
    /\ result = NewResult
    /\ page = <<>>
    /\ xpc = <<>>
    /\ xi = <<>>
    /\ xk = <<>>
    /\ new_js_urls = <<>>
    /\ PoolIdle

FilterInit ==
    /\ \E pattern_info \in Corpus :
       \E match \in CandidatesFor(pattern_info) :
          args = [fn |-> "_is_high_quality_result", match |-> match,
                  pattern_info |-> pattern_info,
                  category |-> pattern_info.category]
    /\ ret = <<>>
    /\ phase = "called"
    /\ ScannerIdle

FilterReturn ==
    /\ phase = "called"
    /\ args.fn = "_is_high_quality_result"
    /\ ret' = <<QualityOutcome(args.match, args.pattern_info, args.category)>>
    /\ phase' = "returned"
    /\ UNCHANGED <<args, poolVars, scanVars, xVars>>

FilterNext == FilterReturn

SpecFilter == FilterInit /\ [][FilterNext]_vars

-----------------------------------------------------------------------------
(* Claims about the quality filter, checked under SpecFilter.              *)

FilterReturned == phase = "returned" /\ args.fn = "_is_high_quality_result"
FilterAccepted == FilterReturned /\ ret[1].accept

\* The positions of the character c in s, in increasing order.
PositionsOf(s, c) == {i \in 1..Len(s) : Ch(s, i) = c}

\* C3: every candidate accepted for a rule of quality critical has length >= 8
\* after trimming, also when a category-specific return of stage 7 accepts it.
\* The code does not do this: the return of line 538 accepts a path with one
\* '/' and a '.' before stage 15 is reached.
C3_CriticalAcceptedHasLength8 ==
    (FilterAccepted /\ args.pattern_info.quality = "critical")
        => Len(Strip(args.match)) >= 8

C5_AcceptedJwtHasThreeLongSegments ==
    (FilterAccepted /\ args.category = "jwt_tokens")
        => LET m == Strip(args.match)
               dots == PositionsOf(m, ".")
           IN  /\ Cardinality(dots) = 2
               /\ SetMin(dots) - 1 > 10
               /\ SetMax(dots) - SetMin(dots) - 1 > 10
               /\ Len(m) - SetMax(dots) > 10

\* A jwt_tokens candidate of three segments was accepted.
C5_Witness ==
    /\ FilterAccepted
    /\ args.category = "jwt_tokens"
    /\ ret[1].stage = 7
    /\ Count(args.match, ".") = 2

\* The categories for which every branch of stage 7 is a return.
Stage7Categories ==
    {"emails", "phones", "ip_addresses", "urls_domains", "jwt_tokens"}

\* No test of stages 8 to 15 (lines 553-605) rejects m.
PassesStages8To15(m, quality, category) ==
    /\ ~HasHtmlTag(m)
    /\ ~StartsWith(m, "data:image/")
    /\ ~LowEntropy(m, quality, category)
    /\ ~TooRepetitive(m)
    /\ ~IsTestData(m)
    /\ ~ShortAlnum(m)
    /\ ~BadPath(m, category)
    /\ ~BelowTier(m, quality)

\* C18: stage 7 returns only for the categories emails, phones, ip_addresses,
\* urls_domains and jwt_tokens; a candidate of another category that passed
\* stages 1 to 6 is accepted only if it passes every test of stages 8 to 15.
\* The code does not do this: for api_endpoints and sensitive_paths line 536
\* and line 538 return at stage 7.
C18_Stage7ReturnsOnlyForFiveCategories ==
    (FilterReturned /\ args.category \notin Stage7Categories) =>
        /\ ret[1].stage # 7
        /\ ret[1].accept =>
              PassesStages8To15(Strip(args.match), args.pattern_info.quality,
                                args.category)

\* C19: no candidate of category secrets or jwt_tokens under a rule of quality
\* critical or high is accepted with a Shannon entropy below 3.5 bits per
\* character.  The code does not do this: jwt_tokens returns at line 551,
\* before the entropy test of stage 10.
C19_LowEntropySecretNeverAccepted ==
    (/\ FilterAccepted
     /\ args.category \in {"secrets", "jwt_tokens"}
     /\ args.pattern_info.quality \in {"critical", "high"})
        => 2 * EntropyTimesLen(Strip(args.match))
              >= 7 * 1000000 * Len(Strip(args.match))

\* The segments of a path: the runs of characters other than '/'.
SegmentStarts(m) ==
    {i \in 1..Len(m) : Ch(m, i) # "/" /\ (i = 1 \/ Ch(m, i - 1) = "/")}

\* C20: an accepted candidate of api_endpoints or sensitive_paths has no
\* doubled slash, at its start and at its end included, and does not have
\* fewer than 2 segments together with a length below 8.  The code does not
\* do this: stage 14 strips the slashes of both ends before it splits, and
\* line 538 accepts before stage 14.
C20_AcceptedPathHasNoEmptySegment ==
    (FilterAccepted /\ IsPathCategory(args.category)) =>
        LET m == Strip(args.match) IN
        /\ \A i \in 1..(Len(m) - 1) : ~(Ch(m, i) = "/" /\ Ch(m, i + 1) = "/")
        /\ ~(Cardinality(SegmentStarts(m)) < 2 /\ Len(m) < 8)

\* The placeholder and test-data markers of stage 12, over the lowercased
\* candidate.
HasTestMarker(m) ==
    LET low == Lower(m)
        At(i, n) == IF i + n - 1 <= Len(low) THEN SubSeq(low, i, i + n - 1) ELSE ""
    IN  \/ At(1, 4) \in {"test", "demo"}
        \/ At(1, 6) = "sample"
        \/ At(1, 7) = "example"
        \/ At(1, 11) = "placeholder"
        \/ \E i \in 1..Len(low) : At(i, 5) \in {"12345", "abcde", "lorem", "ipsum"}

\* C9: a candidate that reaches stage 12 (no earlier stage returned) and bears
\* a test-data marker is rejected there; 'test123456789012' under the critical
\* api_key rule of line 191 passes stages 1 to 11 and is rejected at stage 12.
C9_TestDataRejectedAtStage12 ==
    FilterReturned =>
        /\ (ret[1].stage >= 12 /\ HasTestMarker(Strip(args.match)))
              => (~ret[1].accept /\ ret[1].stage = 12)
        /\ (args.match = "test123456789012" /\ args.pattern_info.line = 191)
              => (~ret[1].accept /\ ret[1].stage = 12)

\* The filter returned for 'test123456789012' under the rule of line 191, at
\* stage 12.
C9_Witness ==
    /\ FilterReturned
    /\ args.match = "test123456789012"
    /\ args.pattern_info.line = 191
    /\ args.pattern_info.quality = "critical"
    /\ ret[1].stage = 12

-----------------------------------------------------------------------------
(* The similarity collapser: _filter_similar_items and _items_are_similar, *)
(* lines 722-763.                                                          *)

IsUrlLikeCategory(category) ==
    category \in {"api_endpoints", "sensitive_paths", "urls_domains"}

\* _items_are_similar without the branch of lines 748-751: substring
\* containment for every category.
ItemsAreSimilarNoPathRule(item1, item2, category) ==
    IF Len(item1) = Len(item2) /\ item1 = item2 THEN TRUE
    ELSE IF Len(item1) > Len(item2) THEN Contains(item1, item2)
    ELSE Contains(item2, item1)

\* _items_are_similar, lines 744-763
ItemsAreSimilar(item1, item2, category) ==
    IF IsUrlLikeCategory(category)
    THEN Split(item1, "?")[1] = Split(item2, "?")[1]
    ELSE IF Len(item1) = Len(item2) /\ item1 = item2 THEN TRUE
    ELSE IF Len(item1) > Len(item2) THEN Contains(item1, item2)
    ELSE Contains(item2, item1)

\* The loop of lines 729-738: items still to visit, filtered so far.
RECURSIVE FilterLoop(_, _, _)
FilterLoop(items, filtered, category) ==
    IF items = <<>> THEN filtered
    ELSE LET item == Head(items)
             is_similar == \E k \in 1..Len(filtered) :
                              ItemsAreSimilar(item, filtered[k], category)
         IN  FilterLoop(Tail(items),
                        IF is_similar THEN filtered ELSE Append(filtered, item),
                        category)

\* _filter_similar_items comparing each item with the item before it in the
\* input, not with the items kept so far.
FilterSimilarItemsAdjacent(items, category) ==
    IF Len(items) <= 1 THEN items
    ELSE LET keep == {i \in 1..Len(items) :
                         i = 1 \/ ~ItemsAreSimilar(items[i], items[i - 1], category)}
             F[i \in 0..Len(items)] ==
                 IF i = 0 THEN <<>>
                 ELSE IF i \in keep THEN Append(F[i - 1], items[i]) ELSE F[i - 1]
         IN  F[Len(items)]

\* _filter_similar_items, lines 722-742
FilterSimilarItems(items, category) ==
    IF Len(items) <= 1 THEN items
    ELSE FilterLoop(items, <<>>, category)

-----------------------------------------------------------------------------
(* SpecCollapse: _filter_similar_items on the sorted list of a set of      *)
(* findings of one category (line 702), then on its own result.           *)

\* Bound: the number of findings of the category in one asset.
MaxItems == 4

CollapseCategories ==
    {"api_endpoints", "sensitive_paths", "urls_domains", "secrets"}

FindingPool(category) ==
    IF category = "api_endpoints"
    THEN {"/api/users/123", "/api/users/456", "/api/users", "/api/p?x=1",
          "/api/p?y=2", "/api/p", "/api/q?x=1"}
    ELSE IF category = "sensitive_paths"
    THEN {"/.env", "/.env?a=1", "/.envs", "/admin/config", "/admin/config?b",
          "/admin", "/.git/config"}
    ELSE IF category = "urls_domains"
    THEN {"http://a.io/x", "http://a.io/x?u=1", "http://a.io/x?u=2", "a.io",
          "http://a.io", "cdn.a.io", "http://a.io/?x"}
    ELSE {"keyABC12", "keyABC12xy", "mykeyABC12", "AkeyABC12", "tok3nQW9",
          "tok3nQW9zz", "zz9tok3nQW9"}

SubsetsUpTo(S, n) == {T \in SUBSET S : Cardinality(T) <= n}

CollapseInit ==
    /\ \E category \in CollapseCategories :
       \E items \in SubsetsUpTo(FindingPool(category), MaxItems) :
          args = [fn |-> "_filter_similar_items", items |-> SortedList(items),
                  category |-> category]
    /\ ret = <<>>
    /\ phase = "called"
    /\ ScannerIdle

\* filtered_items = self._filter_similar_items(sorted_items, category)
CollapseReturn ==
    /\ phase = "called"
    /\ args.fn = "_filter_similar_items"
    /\ ret' = <<FilterSimilarItems(args.items, args.category)>>
    /\ phase' = "returned"
    /\ UNCHANGED <<args, poolVars, scanVars, xVars>>

\* the collapser called on the list it returned
CollapseAgain ==
    /\ phase = "returned"
    /\ args.fn = "_filter_similar_items"
    /\ ret' = Append(ret, FilterSimilarItems(ret[1], args.category))
    /\ phase' = "returned twice"
    /\ UNCHANGED <<args, poolVars, scanVars, xVars>>

CollapseNext == CollapseReturn \/ CollapseAgain

SpecCollapse == CollapseInit /\ [][CollapseNext]_vars

-----------------------------------------------------------------------------
(* Claims about the collapser, checked under SpecCollapse.                 *)

\* C6: collapsing the collapsed list gives the same list.
C6_CollapseIdempotent ==
    (phase = "returned twice" /\ args.fn = "_filter_similar_items")
        => ret[2] = ret[1]

\* A list of three findings lost one to the collapser, and the collapser ran
\* again on the result.
C6_Witness ==
    /\ phase = "returned twice"
    /\ args.fn = "_filter_similar_items"
    /\ Len(args.items) = 3
    /\ Len(ret[1]) = 2

\* The content of a finding before its first '?'.
BeforeQuery(x) ==
    LET q == PositionsOf(x, "?") IN
    IF q = {} THEN x ELSE SubSeq(x, 1, SetMin(q) - 1)

\* C8: in a path/URL-like category the collapser keeps exactly one finding of
\* the input for each content before '?': findings are merged if and only if
\* that content is the same, and '/api/users/123' and '/api/users/456' are both
\* kept.
C8_PathCollapseByPreQueryContent ==
    (phase = "returned" /\ args.fn = "_filter_similar_items"
       /\ IsUrlLikeCategory(args.category))
        => LET L == Range(args.items)
               F == Range(ret[1])
           IN  /\ F \subseteq L
               /\ Cardinality(F) = Len(ret[1])
               /\ {BeforeQuery(x) : x \in F} = {BeforeQuery(x) : x \in L}
               /\ \A x \in F : \A y \in F : BeforeQuery(x) = BeforeQuery(y) => x = y
               /\ ({"/api/users/123", "/api/users/456"} \subseteq L
                     => {"/api/users/123", "/api/users/456"} \subseteq F)

\* The collapser returned for a list holding both '/api/users/123' and
\* '/api/users/456' and a pair that differs only in the query string.
C8_Witness ==
    /\ phase = "returned"
    /\ args.fn = "_filter_similar_items"
    /\ args.category = "api_endpoints"
    /\ {"/api/users/123", "/api/users/456", "/api/p?x=1", "/api/p?y=2"}
          \subseteq Range(args.items)
    /\ Len(ret[1]) = 3

-----------------------------------------------------------------------------
(* The merge step: _merge_findings, lines 875-883.  A dict of findings is  *)
(* a function from the categories it has to lists of strings.              *)

\* _merge_findings with the union of line 883 replaced by the new items alone.
MergeFindingsOverwrite(target, source) ==
    [c \in DOMAIN target \cup DOMAIN source |->
        IF c \in DOMAIN source THEN SortedList(Range(source[c])) ELSE target[c]]

\* _merge_findings: target after the call (findings of a source are lists)
MergeFindings(target, source) ==
    [c \in DOMAIN target \cup DOMAIN source |->
        IF c \in DOMAIN source
        THEN LET existing  == IF c \in DOMAIN target THEN Range(target[c]) ELSE {}
                 new_items == Range(source[c])
             IN  SortedList(existing \cup new_items)
        ELSE target[c]]

-----------------------------------------------------------------------------
(* SpecMerge: the findings of some assets merged into result['findings']   *)
(* in any order, any of them possibly more than once.                      *)

\* Bounds: the number of per-asset results and of merges.
NumSources == 3
MaxMerges  == 3

\* Findings of one asset as _analyze_js_content returns them: per category a
\* sorted, collapsed, non-empty list.
AssetFindingsPool ==
    { EmptyDict,
      [c \in {"secrets"} |-> <<"keyABC12">>],
      [c \in {"secrets", "api_endpoints"} |->
          IF c = "secrets" THEN <<"keyABC12xy", "tok3nQW9">> ELSE <<"/api/p">>],
      [c \in {"api_endpoints"} |-> <<"/api/p?x=1", "/api/users">>] }

MergeInit ==
    /\ \E sources \in [1..NumSources -> AssetFindingsPool] :
          args = [fn |-> "_merge_findings", sources |-> sources]
    /\ ret = <<>>
    /\ phase = "called"
    /\ ScannerIdle

\* self._merge_findings(result['findings'], js_result['findings']) for the
\* i-th per-asset result; ret logs the merges done.
MergeSource(i) ==
    /\ args.fn = "_merge_findings"
    /\ Len(ret) < MaxMerges
    /\ result' = [result EXCEPT !.findings = MergeFindings(@, args.sources[i])]
    /\ ret' = Append(ret, i)
    /\ UNCHANGED <<args, poolVars, phase, max_js_files, found_js_urls, lock,
                   xVars>>

MergeNext == \E i \in 1..NumSources : MergeSource(i)

SpecMerge == MergeInit /\ [][MergeNext]_vars

-----------------------------------------------------------------------------
(* Claims about the merge, checked under SpecMerge.                        *)

MergedSources == {args.sources[ret[k]] : k \in 1..Len(ret)}

IsStrictlySorted(list) ==
    \A k \in 1..Len(list) : \A l \in 1..Len(list) :
        k < l => StrLess(list[k], list[l])

\* C7: after any sequence of merges the aggregate holds, per category, the
\* sorted duplicate-free list of the union of the findings of the results
\* merged so far: it depends on which results were merged, not on their order
\* nor on how often each was merged.
C7_MergeIsSetUnion ==
    args.fn = "_merge_findings" =>
        /\ DOMAIN result.findings = UNION {DOMAIN src : src \in MergedSources}
        /\ \A c \in DOMAIN result.findings :
              /\ Range(result.findings[c]) =
                    UNION {Range(src[c]) : src \in {x \in MergedSources : c \in DOMAIN x}}
              /\ IsStrictlySorted(result.findings[c])

\* Two different results with a common category were merged, the first of
\* them twice.
C7_Witness ==
    /\ args.fn = "_merge_findings"
    /\ Len(ret) = 3
    /\ ret[1] = ret[3]
    /\ ret[1] # ret[2]
    /\ args.sources[ret[1]] # args.sources[ret[2]]
    /\ "secrets" \in DOMAIN args.sources[ret[1]]
    /\ "secrets" \in DOMAIN args.sources[ret[2]]
    /\ Len(result.findings["secrets"]) = 3

-----------------------------------------------------------------------------
(* The match extractor: _beautify_js (lines 435-455) and                   *)
(* _analyze_js_content (lines 670-720).  The rules the model matches are   *)
(* the four keyed-secret rules of lines 191-194,                           *)
(*   (?:stem1[_-]?stem2|stem1stem2)\s*[:=]\s*["']([a-zA-Z0-9_\-+/=]{12,120})["'] *)
(* under re.IGNORECASE; the texts of the model are matched by no other     *)
(* rule of _init_patterns.                                                 *)

HexDigits == "0123456789abcdefABCDEF"

\* int(h, 16) for one hexadecimal digit
HexVal(c) ==
    LET i == CHOOSE i \in 1..Len(HexDigits) : Ch(HexDigits, i) = c IN
    IF i <= 16 THEN i - 1 ELSE i - 7

\* int(h, 16)
RECURSIVE HexInt(_)
HexInt(h) ==
    IF h = "" THEN 0
    ELSE 16 * HexInt(SubSeq(h, 1, Len(h) - 1)) + HexVal(Ch(h, Len(h)))

\* chr(n) for tab, newline, carriage return and printable ASCII
Chr(n) ==
    IF n = 9 THEN "\t"
    ELSE IF n = 10 THEN "\n"
    ELSE IF n = 13 THEN "\r"
    ELSE IF n <= 95 THEN Ch(AsciiLo, n - 31)
    ELSE Ch(AsciiHi, n - 96)

\* ''.join(pieces) for a sequence of strings, from position lo to hi
RECURSIVE JoinRange(_, _, _)
JoinRange(pieces, lo, hi) ==
    IF lo > hi THEN ""
    ELSE IF lo = hi THEN pieces[lo]
    ELSE LET mid == (lo + hi) \div 2 IN
         JoinRange(pieces, lo, mid) \o JoinRange(pieces, mid + 1, hi)

JoinPieces(pieces) == JoinRange(pieces, 1, Len(pieces))

\* intro followed by n hexadecimal digits of a code below 128 begins at
\* position i of content
EscapeAt(content, intro, n, i) ==
    LET k == Len(intro) + n IN
    /\ i + k - 1 <= Len(content)
    /\ SubSeq(content, i, i + Len(intro) - 1) = intro
    /\ AllIn(SubSeq(content, i + Len(intro), i + k - 1), HexDigits)
    /\ HexInt(SubSeq(content, i + Len(intro), i + k - 1)) < 128

\* One pass of re.sub over content: intro followed by n hexadecimal digits
\* becomes the character of that code when the code is below 128 (line 441;
\* codes of 128 and more do not occur after \u and % in the texts of the
\* model).  Two escapes never overlap: an intro has no hexadecimal digit.
DecodeEscapes(content, intro, n) ==
    LET k == Len(intro) + n
        starts == {i \in 1..Len(content) : EscapeAt(content, intro, n, i)}
    IN  JoinPieces([i \in 1..Len(content) |->
            IF i \in starts
            THEN Chr(HexInt(SubSeq(content, i + Len(intro), i + k - 1)))
            ELSE IF \E j \in starts : j < i /\ i < j + k THEN ""
            ELSE Ch(content, i)])

\* re.sub(r'c([a-zA-Z_$])', 'c\n\1', content), lines 450-451
BreakAfter(content, c) ==
    JoinPieces([i \in 1..Len(content) |->
        IF /\ Ch(content, i) = c
           /\ i < Len(content)
           /\ InStr(Ch(content, i + 1), Alphas \o "_$")
        THEN c \o "\n"
        ELSE Ch(content, i)])

\* _beautify_js, lines 435-455
BeautifyJs(js_content) ==
    LET hex     == DecodeEscapes(js_content, "\\x", 2)
        unicode == DecodeEscapes(hex, "\\u", 4)
        unquote == DecodeEscapes(unicode, "%", 2)
    IN  BreakAfter(BreakAfter(unquote, ";"), "{")

\* [a-zA-Z0-9_\-+/=] and its quantifier {12,120}, lines 191-194
KeyChars == Alnums \o "_-+/="
KeyLo == 12
KeyHi == 120

\* the keyed rules in the order of the source
KeyedRules ==
    << [line |-> 191, stem1 |-> "api",    stem2 |-> "key"],
       [line |-> 192, stem1 |-> "secret", stem2 |-> "key"],
       [line |-> 193, stem1 |-> "app",    stem2 |-> "secret"],
       [line |-> 194, stem1 |-> "client", stem2 |-> "secret"] >>

\* pattern_info of the rule at a line
RuleAt(line) == CHOOSE p \in Corpus : p.line = line

\* the length of the longest run of characters of cls in s from position i
RunLen(s, i, cls) ==
    LET stop == {j \in i..Len(s) : ~InStr(Ch(s, j), cls)} IN
    IF i > Len(s) THEN 0
    ELSE IF stop = {} THEN Len(s) - i + 1
    ELSE SetMin(stop) - i

\* MatchKeyedAt with the quantifier {12,15}
MatchKeyedAtShortRun(rule, content, i) ==
    LET n == Len(content)
        Sub(a, b) == IF a <= b /\ b <= n THEN SubSeq(content, a, b) ELSE ""
        p1  == i + Len(rule.stem1)
        p2  == IF InStr(Sub(p1, p1), "_-") THEN p1 + 1 ELSE p1
        p3  == p2 + Len(rule.stem2)
        p4  == p3 + RunLen(content, p3, Spaces)
        p5  == p4 + 1 + RunLen(content, p4 + 1, Spaces)
        run == RunLen(content, p5 + 1, KeyChars)
        p6  == p5 + 1 + run
    IN  IF /\ Lower(Sub(i, p1 - 1)) = rule.stem1
           /\ Lower(Sub(p2, p3 - 1)) = rule.stem2
           /\ InStr(Sub(p4, p4), ":=")
           /\ InStr(Sub(p5, p5), "'\"")
           /\ run \in KeyLo..15
           /\ InStr(Sub(p6, p6), "'\"")
        THEN [end |-> p6 + 1, group |-> Sub(p5 + 1, p6 - 1)]
        ELSE [end |-> 0, group |-> ""]

\* The match of a keyed rule that begins at position i of content: the
\* position after it and its capture group, or end = 0 when there is none.
\* No choice of the pattern backtracks to another match: the optional
\* separator, the runs of \s and the run of the class are each followed by a
\* character outside them.
MatchKeyedAt(rule, content, i) ==
    LET n == Len(content)
        Sub(a, b) == IF a <= b /\ b <= n THEN SubSeq(content, a, b) ELSE ""
        p1  == i + Len(rule.stem1)
        p2  == IF InStr(Sub(p1, p1), "_-") THEN p1 + 1 ELSE p1
        p3  == p2 + Len(rule.stem2)
        p4  == p3 + RunLen(content, p3, Spaces)
        p5  == p4 + 1 + RunLen(content, p4 + 1, Spaces)
        run == RunLen(content, p5 + 1, KeyChars)
        p6  == p5 + 1 + run
    IN  IF /\ Lower(Sub(i, p1 - 1)) = rule.stem1
           /\ Lower(Sub(p2, p3 - 1)) = rule.stem2
           /\ InStr(Sub(p4, p4), ":=")
           /\ InStr(Sub(p5, p5), "'\"")
           /\ run \in KeyLo..KeyHi
           /\ InStr(Sub(p6, p6), "'\"")
        THEN [end |-> p6 + 1, group |-> Sub(p5 + 1, p6 - 1)]
        ELSE [end |-> 0, group |-> ""]

\* re.findall(pattern, processed_content, ...) from position i, line 681:
\* the leftmost match at or after i, then the matches after its end
RECURSIVE Findall(_, _, _)
Findall(rule, content, i) ==
    LET starts == {j \in i..Len(content) : MatchKeyedAt(rule, content, j).end > 0}
    IN  IF starts = {} THEN <<>>
        ELSE LET m == MatchKeyedAt(rule, content, SetMin(starts)) IN
             <<m.group>> \o Findall(rule, content, m.end)

\* clean_match = match.strip().strip('\'"'), line 688
CleanMatch(match) == StripQuotes(Strip(match))

\* _is_relevant_to_domain, lines 629-668: every return statement returns True
IsRelevantToDomain(content, base_domain, category) == TRUE

\* The rules of a category that are run if an exception of re.findall ends
\* the loops: those before the first rule that raises.
RulesRunUntilRaise(raises, category) ==
    {j \in DOMAIN KeyedRules :
        /\ RuleAt(KeyedRules[j].line).category = category
        /\ \A i \in 1..j : KeyedRules[i].line \notin raises}

\* The rules of a category that the loop of lines 676-695 runs to the end:
\* raises holds the lines of the rules for which re.findall raises (line
\* 681), and the except of lines 694-695 goes on with the next rule.
RulesRun(raises, category) ==
    {j \in DOMAIN KeyedRules :
        /\ RuleAt(KeyedRules[j].line).category = category
        /\ KeyedRules[j].line \notin raises}

\* findings[category] after the loop of lines 676-695
FindingsWhen(raises, processed_content, base_domain, category) ==
    { CleanMatch(match) :
        match \in UNION
          { { m \in Range(Findall(KeyedRules[k], processed_content, 1)) :
                /\ m # ""
                /\ IsHighQualityResult(CleanMatch(m),
                                       RuleAt(KeyedRules[k].line), category)
                /\ IsRelevantToDomain(CleanMatch(m), base_domain, category) }
            : k \in RulesRun(raises, category) } }

\* the same when no rule raises
FindingsOf(processed_content, base_domain, category) ==
    FindingsWhen({}, processed_content, base_domain, category)

\* _analyze_js_content on the beautified text: the dict of lines 706-710
\* (url left out)
AnalyzeProcessedWhen(raises, js_content, processed_content, base_domain) ==
    LET found == {c \in Categories :
                     FindingsWhen(raises, processed_content, base_domain, c) # {}}
    IN  [size |-> Len(js_content),
         findings |->
            [c \in found |->
                FilterSimilarItems(
                    SortedList(FindingsWhen(raises, processed_content,
                                            base_domain, c)), c)]]

\* the same when no rule raises
AnalyzeProcessed(js_content, processed_content, base_domain) ==
    AnalyzeProcessedWhen({}, js_content, processed_content, base_domain)

-----------------------------------------------------------------------------
(* SpecAnalyze: _analyze_js_content on a text made of a few statements.    *)

\* Bound: the number of statements of a text.
MaxStatements == 2

StatementPool ==
    { "var x = 1; ",
      "api_key=\"ab12CD34ef56GH78\"",
      "apiKey: 'ab12CD34ef56';",
      "api_key=\"test123456789012\";",
      "secret-key = \"\\x41b12CD34ef56GH7\";",
      "x={app_secret:\"Zx81Qw92Er73Ty64\"};",
      "client%5Fsecret='Zx81Qw92Er73Ty64Mn';",
      "api_key=\"short\";" }

RECURSIVE Concat(_)
Concat(statements) ==
    IF statements = <<>> THEN ""
    ELSE Head(statements) \o Concat(Tail(statements))

Texts ==
    {Concat(st) : st \in UNION {[1..n -> StatementPool] : n \in 0..MaxStatements}}

AnalyzeInit ==
    /\ \E js_content \in Texts :
          args = [fn |-> "_analyze_js_content", js_content |-> js_content,
                  base_domain |-> "a.io", raises |-> {}]
    /\ ret = <<>>
    /\ phase = "called"
    /\ ScannerIdle

\* processed_content = self._beautify_js(js_content)
AnalyzeBeautify ==
    /\ phase = "called"
    /\ args.fn = "_analyze_js_content"
    /\ ret' = <<BeautifyJs(args.js_content)>>
    /\ phase' = "beautified"
    /\ UNCHANGED <<args, poolVars, scanVars, xVars>>

\* the rest of _analyze_js_content: matching, filtering, collapsing
AnalyzeReturn ==
    /\ phase = "beautified"
    /\ args.fn = "_analyze_js_content"
    /\ ret' = Append(ret, AnalyzeProcessedWhen(args.raises, args.js_content,
                                               ret[1], args.base_domain))
    /\ phase' = "returned"
    /\ UNCHANGED <<args, poolVars, scanVars, xVars>>

AnalyzeNext == AnalyzeBeautify \/ AnalyzeReturn

SpecAnalyze == AnalyzeInit /\ [][AnalyzeNext]_vars

-----------------------------------------------------------------------------
(* Claims about the match extractor, checked under SpecAnalyze.            *)

ExampleText == "var x = 1; api_key=\"ab12CD34ef56GH78\""

AnalyzeReturned == phase = "returned" /\ args.fn = "_analyze_js_content"

\* C10: analyzing the text  var x = 1; api_key="ab12CD34ef56GH78"  yields
\* the finding ab12CD34ef56GH78 in category secrets: the api_key rule
\* captures it, the filter accepts it at its last stage, and the collapser
\* keeps it.  For every text, each capture of the api_key rule that the
\* filter accepts is reported or is similar to a reported finding.
C10_ApiKeyExampleYieldsFinding ==
    AnalyzeReturned =>
        /\ args.js_content = ExampleText =>
              /\ Range(Findall(KeyedRules[1], ret[1], 1)) = {"ab12CD34ef56GH78"}
              /\ QualityOutcome("ab12CD34ef56GH78", RuleAt(191), "secrets")
                    = Decided(TRUE, 15)
              /\ "secrets" \in DOMAIN ret[2].findings
              /\ "ab12CD34ef56GH78" \in Range(ret[2].findings["secrets"])
        /\ \A m \in Range(Findall(KeyedRules[1], ret[1], 1)) :
              IsHighQualityResult(CleanMatch(m), RuleAt(191), "secrets") =>
                  /\ "secrets" \in DOMAIN ret[2].findings
                  /\ \E kept \in Range(ret[2].findings["secrets"]) :
                        ItemsAreSimilar(CleanMatch(m), kept, "secrets")

\* The example text was analyzed and its only finding is the key.
C10_Witness ==
    /\ AnalyzeReturned
    /\ args.js_content = ExampleText
    /\ ret[2].findings = [c \in {"secrets"} |-> <<"ab12CD34ef56GH78">>]

-----------------------------------------------------------------------------
(* SpecRaise: _analyze_js_content on a text for which re.findall raises    *)
(* for no rule, or for one of the keyed rules (any Exception: the except   *)
(* of line 694 catches it).                                                *)

RaiseStatements ==
    { "api_key=\"ab12CD34ef56GH78\"",
      "secret-key = \"\\x41b12CD34ef56GH7\";",
      "x={app_secret:\"Zx81Qw92Er73Ty64\"};",
      "client%5Fsecret='Zx81Qw92Er73Ty64Mn';" }

RaiseTexts ==
    {Concat(st) : st \in UNION {[1..n -> RaiseStatements] : n \in 0..MaxStatements}}

RuleLines == {KeyedRules[k].line : k \in DOMAIN KeyedRules}

RaiseInit ==
    /\ \E js_content \in RaiseTexts :
       \E raises \in {{}} \cup {{line} : line \in RuleLines} :
          args = [fn |-> "_analyze_js_content", js_content |-> js_content,
                  base_domain |-> "a.io", raises |-> raises]
    /\ ret = <<>>
    /\ phase = "called"
    /\ ScannerIdle

SpecRaise == RaiseInit /\ [][AnalyzeNext]_vars

\* The captures of the rule at a line in the beautified text that the filter
\* accepts, cleaned.
AcceptedOfRule(line, processed_content) ==
    LET k == CHOOSE j \in DOMAIN KeyedRules : KeyedRules[j].line = line IN
    {CleanMatch(m) : m \in
        {x \in Range(Findall(KeyedRules[k], processed_content, 1)) :
            x # "" /\ IsHighQualityResult(CleanMatch(x), RuleAt(line),
                                          RuleAt(line).category)}}

\* What the rules other than those of the lines in without give for a
\* category, sorted and collapsed.
WithoutRules(without, processed_content, category) ==
    FilterSimilarItems(
        SortedList(UNION {AcceptedOfRule(line, processed_content) :
                             line \in {l \in RuleLines \ without :
                                          RuleAt(l).category = category}}),
        category)

\* C26: when re.findall raises for one rule, the findings of the text are
\* those of the other rules: for every category the sorted and collapsed
\* captures of the rules that did not raise, and no category without one.
C26_RaisingRuleIsSkipped ==
    (AnalyzeReturned /\ args.raises # {}) =>
        /\ \A c \in DOMAIN ret[2].findings :
              ret[2].findings[c] = WithoutRules(args.raises, ret[1], c)
        /\ \A c \in Categories :
              WithoutRules(args.raises, ret[1], c) # <<>> =>
                 c \in DOMAIN ret[2].findings

\* re.findall raised for the api_key rule on a text with a capture of this
\* rule and a capture of the app_secret rule: the second alone is reported.
C26_Witness ==
    /\ AnalyzeReturned
    /\ args.raises = {191}
    /\ AcceptedOfRule(191, ret[1]) = {"ab12CD34ef56GH78"}
    /\ AcceptedOfRule(193, ret[1]) = {"Zx81Qw92Er73Ty64"}
    /\ ret[2].findings = [c \in {"secrets"} |-> <<"Zx81Qw92Er73Ty64">>]

-----------------------------------------------------------------------------
(* The asset locator: _normalize_js_url (lines 363-384), _is_valid_js_url  *)
(* (lines 386-417) and _extract_js_urls (lines 303-361).                   *)
(*                                                                         *)
(* The markup of a page is a sequence of elements, each a reference in one *)
(* context:  script   <script src="ref"></script>                          *)
(*           import   import("ref")    inside inline script                *)
(*           quoted   "ref"            inside inline script                *)
(* soup.find_all('script', src=True) yields the script elements in order,  *)
(* and re.findall of a textual rule yields, in order, the references of    *)
(* the elements whose rendering the rule matches.                          *)

Element(kind, ref) == [kind |-> kind, ref |-> ref]

\* urlparse(url).scheme and .netloc for a url of the form scheme://netloc...
Scheme(url) ==
    LET at == {i \in 1..(Len(url) - 2) : SubSeq(url, i, i + 2) = "://"} IN
    IF at = {} THEN "" ELSE SubSeq(url, 1, SetMin(at) - 1)

AfterScheme(url) ==
    LET at == {i \in 1..(Len(url) - 2) : SubSeq(url, i, i + 2) = "://"} IN
    IF at = {} THEN url ELSE SubSeq(url, SetMin(at) + 3, Len(url))

Netloc(url) ==
    LET rest == AfterScheme(url)
        stop == {i \in 1..Len(rest) : InStr(Ch(rest, i), "/?#")}
    IN  IF stop = {} THEN rest ELSE SubSeq(rest, 1, SetMin(stop) - 1)

\* the path of url up to and including its last '/', '/' when it has no path
PathDir(url) ==
    LET rest  == AfterScheme(url)
        stop  == {i \in 1..Len(rest) : InStr(Ch(rest, i), "?#")}
        path  == SubSeq(rest, Len(Netloc(url)) + 1,
                        IF stop = {} THEN Len(rest) ELSE SetMin(stop) - 1)
        slash == {i \in 1..Len(path) : Ch(path, i) = "/"}
    IN  IF slash = {} THEN "/" ELSE SubSeq(path, 1, SetMax(slash))

\* urlsplit(url).scheme: what is before the first ':' when that is a letter
\* followed by letters, digits, '+', '-' and '.', in lower case; "" otherwise
UrlScheme(url) ==
    LET colons == {i \in 1..Len(url) : Ch(url, i) = ":"} IN
    IF colons = {} THEN ""
    ELSE LET head == SubSeq(url, 1, SetMin(colons) - 1) IN
         IF head # "" /\ IsAlphaCh(Ch(head, 1)) /\ AllIn(head, Alnums \o "+-.")
         THEN Lower(head)
         ELSE ""

\* urljoin(base_url, url): a url with a scheme that is not the scheme of the
\* base is returned as it is; the other urls of the model are relative with
\* no scheme, no leading '/', no dot segment and a non-empty path
UrlJoin(base_url, url) ==
    IF UrlScheme(url) \notin {"", Scheme(base_url)} THEN url
    ELSE Scheme(base_url) \o "://" \o Netloc(base_url) \o PathDir(base_url) \o url

\* _normalize_js_url, lines 363-384; None is the empty string (the callers
\* test the truth of the result only)
NormalizeJsUrl(url0, base_url) ==
    CHOOSE normalized \in
        { LET url == s IN
          IF \/ url = ""
             \/ \E pre \in {"data:", "javascript:", "mailto:", "#", "blob:"} :
                   StartsWith(url, pre)
          THEN ""
          ELSE IF StartsWith(url, "//") THEN "https:" \o url
          ELSE IF StartsWith(url, "/")
               THEN Scheme(base_url) \o "://" \o Netloc(base_url) \o url
          ELSE IF ~(StartsWith(url, "http://") \/ StartsWith(url, "https://"))
               THEN UrlJoin(base_url, url)
          ELSE url
          : s \in {Strip(url0)} } : TRUE

\* excluded_patterns, lines 394-403
excluded_patterns ==
    {"google-analytics", "googletagmanager", "facebook.net", "doubleclick.net",
     "googlesyndication", "scorecardresearch", "amazon-adsystem", "adsystem.amazon",
     "googletag", "analytics.js", "gtag.js", "fbevents.js", "hotjar", "intercom",
     "zendesk", "drift.com", "crisp.chat", "mouseflow", "fullstory", "mixpanel",
     "segment.com", "amplitude.com", "heap.io", "pendo.io", "livechat", "zopim",
     "olark.com", "salesforce.com", "pardot.com", "marketo.com", "eloqua.com",
     "adobe.com", "omniture.com", "chartbeat.com", "quantserve.com", "outbrain.com",
     "taboola.com", "addthis.com", "sharethis.com", "disqus.com", "gravatar.com"}

\* the length limit of line 411
MaxUrlLength == 800

\* IsValidJsUrl with the denylist looked up in the url as written
IsValidJsUrlCaseSensitive(url) ==
    /\ EndsWith(url, ".js") \/ Contains(url, ".js?")
    /\ \A pattern \in excluded_patterns : ~Contains(url, pattern)
    /\ Len(url) <= MaxUrlLength

\* _is_valid_js_url, lines 386-417
IsValidJsUrl(url) ==
    /\ EndsWith(url, ".js") \/ Contains(url, ".js?")
    /\ \A url_lower \in {Lower(url)} :
          \A pattern \in excluded_patterns : ~Contains(url_lower, pattern)
    /\ Len(url) <= MaxUrlLength

\* [^"']*\.js(?:\?[^"']*)? matches all of ref, under re.IGNORECASE
JsRefShape(ref) ==
    /\ ~InStr("'", ref)
    /\ ~InStr("\"", ref)
    /\ \E low \in {Lower(ref)} : EndsWith(low, ".js") \/ Contains(low, ".js?")

\* [^"']*(?:kw1|kw2|...)[^"']*\.js(?:\?[^"']*)? matches all of ref
KeywordJsRefShape(ref, keywords) ==
    /\ ~InStr("'", ref)
    /\ ~InStr("\"", ref)
    /\ \E low \in {Lower(ref)} :
       \E j \in 1..(Len(low) - 2) :
          /\ SubSeq(low, j, j + 2) = ".js"
          /\ j + 2 = Len(low) \/ Ch(low, j + 3) = "?"
          /\ \E kw \in keywords : \E i \in 1..(j - Len(kw)) :
                SubSeq(low, i, i + Len(kw) - 1) = kw

\* the number of js_patterns, lines 331-339
NumPatterns == 7

\* js_patterns[k] matches the rendering of the element
PatternMatches(k, element) ==
    IF k = 1 THEN JsRefShape(element.ref)
    ELSE IF k = 2
    THEN KeywordJsRefShape(element.ref,
            {"chunk", "bundle", "vendor", "main", "app", "runtime", "polyfill"})
    ELSE IF k = 3 THEN element.kind = "script" /\ JsRefShape(element.ref)
    ELSE IF k = 4 THEN element.kind = "import" /\ JsRefShape(element.ref)
    ELSE IF k = 5 THEN element.kind = "require" /\ JsRefShape(element.ref)
    ELSE IF k = 6 THEN element.kind = "loadScript" /\ JsRefShape(element.ref)
    ELSE KeywordJsRefShape(element.ref, {"min", "compressed", "minified"})

\* the values[i] with keep[i], in order
RECURSIVE SelectFrom(_, _)
SelectFrom(values, keep) ==
    IF values = <<>> THEN <<>>
    ELSE (IF Head(keep) THEN <<Head(values)>> ELSE <<>>)
            \o SelectFrom(Tail(values), Tail(keep))

Refs(content) == [i \in 1..Len(content) |-> content[i].ref]

\* [script.get('src') for script in soup.find_all('script', src=True)]
ScriptSrcs(content) ==
    SelectFrom(Refs(content),
               [i \in 1..Len(content) |-> content[i].kind = "script"])

\* re.findall(js_patterns[k], content, re.IGNORECASE), line 345
PatternFindall(k, content) ==
    SelectFrom(Refs(content),
               [i \in 1..Len(content) |-> PatternMatches(k, content[i])])

\* What lines 319-320 and 349-350 let through for a raw reference: its
\* normalization when that is not None and is valid, "" otherwise.
AcceptedUrl(ref, base_url) ==
    CHOOSE url \in {IF n # "" /\ IsValidJsUrl(n) THEN n ELSE "" :
                       n \in {NormalizeJsUrl(ref, base_url)}} : TRUE

\* AcceptedUrl of the reference of an element, and the rules that match it
ElementFacts(element, base_url) ==
    [accepted |-> AcceptedUrl(element.ref, base_url),
     rules    |-> {k \in 1..NumPatterns : PatternMatches(k, element)}]

\* The elements and the base urls of the pages of the model, and their
\* ElementFacts, computed once.
ElementPool ==
    { Element("script", "/static/app.js"),
      Element("script", "//cdn.a.io/lib.min.js"),
      Element("script", " vendor.js?v=2 "),
      Element("script", "https://www.google-analytics.com/analytics.js"),
      Element("script", "data:text/javascript,x.js"),
      Element("import", "chunk.1.js") }

BaseUrls == {"https://a.io", "http://a.io"}

\* s repeated n times
RECURSIVE Repeat(_, _)
Repeat(s, n) ==
    IF n = 0 THEN ""
    ELSE IF n % 2 = 1 THEN s \o Repeat(s, n - 1)
    ELSE Repeat(s \o s, n \div 2)

\* an absolute reference of n characters, n > 16
LongRef(n) == "https://a.io/" \o Repeat("a", n - 16) \o ".js"

\* The elements of the pages handed to _extract_js_urls alone: references
\* of every branch of _normalize_js_url and of every test of
\* _is_valid_js_url.
ExtractElements ==
    { Element("script", "/static/app.js"),
      Element("script", "//cdn.a.io/lib.min.js"),
      Element("script", " vendor.js?v=2 "),
      Element("script", "data:text/javascript,x.js"),
      Element("script", "DATA:text/javascript,x.js"),
      Element("script", "JavaScript:void(0)//x.js"),
      Element("script", "blob:https://a.io/x.js"),
      Element("script", "#main.js"),
      Element("script", "ftp://a.io/x.js"),
      Element("script", "https://a.io/HotJar/x.js"),
      Element("script", "lib/App.JS"),
      Element("script", LongRef(MaxUrlLength)),
      Element("script", LongRef(MaxUrlLength + 1)),
      Element("import", "chunk.1.js") }

KnownFacts ==
    { <<element, base_url, ElementFacts(element, base_url)>> :
         element \in ElementPool \cup ExtractElements, base_url \in BaseUrls }

FactsOf(element, base_url) ==
    IF element \in ElementPool \cup ExtractElements /\ base_url \in BaseUrls
    THEN (CHOOSE f \in KnownFacts : f[1] = element /\ f[2] = base_url)[3]
    ELSE ElementFacts(element, base_url)

RECURSIVE FactsOfAll(_, _)
FactsOfAll(content, base_url) ==
    IF content = <<>> THEN <<>>
    ELSE <<FactsOf(Head(content), base_url)>>
            \o FactsOfAll(Tail(content), base_url)

\* The page as one invocation reads it: the markup and, derived from it,
\* the lists its loops walk.  scripts[i] is AcceptedUrl of the i-th script
\* tag, matches[k][i] AcceptedUrl of the i-th match of js_patterns[k].
LoadPage(base_url, content) ==
    CHOOSE loaded \in
        { [base_url |-> base_url,
           content  |-> content,
           scripts  |->
              SelectFrom([i \in 1..Len(content) |-> facts[i].accepted],
                         [i \in 1..Len(content) |-> content[i].kind = "script"]),
           matches  |->
              [k \in 1..NumPatterns |->
                 SelectFrom([i \in 1..Len(content) |-> facts[i].accepted],
                            [i \in 1..Len(content) |-> k \in facts[i].rules])]]
          : facts \in {FactsOfAll(content, base_url)} } : TRUE

\* ---- _extract_js_urls of thread t, one action per step.  xpc[t] is the
\* position: "start" (line 309), "scripts" (the loop of line 316 at script
\* xi[t]), "script_wait" and "script_locked" (lines 321-327), "after_scripts"
\* (line 330), "rule" (line 341 at rule xk[t]), "matches" (the loop of line
\* 346 at match xi[t]), "match_wait" and "match_locked" (lines 352-355),
\* "done" (line 361).  xk[t] = 0 until the textual rules are entered.

Size == Cardinality(found_js_urls)

\* what the loop of thread t is at: the accepted locator, or ""
CurrentUrl(t) ==
    IF xpc[t] \in {"scripts", "script_wait", "script_locked"}
    THEN page[t].scripts[xi[t]]
    ELSE page[t].matches[xk[t]][xi[t]]

\* lines 305-313
ExtractStart(t) ==
    /\ xpc[t] = "start"
    /\ xpc' = [xpc EXCEPT ![t] = IF Size >= max_js_files THEN "done" ELSE "scripts"]
    /\ xi' = [xi EXCEPT ![t] = 1]
    /\ xk' = [xk EXCEPT ![t] = 0]
    /\ new_js_urls' = [new_js_urls EXCEPT ![t] = <<>>]
    /\ UNCHANGED <<fnVars, poolVars, scanVars, page>>

\* lines 316-320: the next script tag, up to the lock
ExtractScript(t) ==
    /\ xpc[t] = "scripts"
    /\ IF xi[t] > Len(page[t].scripts)
       THEN /\ xpc' = [xpc EXCEPT ![t] = "after_scripts"]
            /\ xi' = xi
       ELSE IF CurrentUrl(t) # ""
       THEN /\ xpc' = [xpc EXCEPT ![t] = "script_wait"]
            /\ xi' = xi
       ELSE /\ xi' = [xi EXCEPT ![t] = @ + 1]
            /\ xpc' = xpc
    /\ UNCHANGED <<fnVars, poolVars, scanVars, page, xk, new_js_urls>>

\* with self.lock: (lines 321 and 352)
AcquireLock(t) ==
    /\ xpc[t] \in {"script_wait", "match_wait"}
    /\ lock = "free"
    /\ lock' = t
    /\ xpc' = [xpc EXCEPT ![t] = IF @ = "script_wait" THEN "script_locked"
                                  ELSE "match_locked"]
    /\ UNCHANGED <<fnVars, poolVars, max_js_files, found_js_urls, result, page,
                   xi, xk, new_js_urls>>

\* ScriptInsert without the break of lines 326-327
ScriptInsertNoBreak(t) ==
    /\ xpc[t] = "script_locked"
    /\ lock = t
    /\ LET url == CurrentUrl(t) IN
       IF url \notin found_js_urls
       THEN /\ found_js_urls' = found_js_urls \cup {url}
            /\ new_js_urls' = [new_js_urls EXCEPT ![t] = Append(@, url)]
       ELSE UNCHANGED <<found_js_urls, new_js_urls>>
    /\ xpc' = [xpc EXCEPT ![t] = "scripts"]
    /\ xi' = [xi EXCEPT ![t] = @ + 1]
    /\ lock' = "free"
    /\ UNCHANGED <<fnVars, poolVars, max_js_files, result, page, xk>>

\* lines 322-327: the body of the with statement, and the release
ScriptInsert(t) ==
    /\ xpc[t] = "script_locked"
    /\ lock = t
    /\ LET url == CurrentUrl(t) IN
       IF url \notin found_js_urls
       THEN /\ found_js_urls' = found_js_urls \cup {url}
            /\ new_js_urls' = [new_js_urls EXCEPT ![t] = Append(@, url)]
            /\ IF Cardinality(found_js_urls \cup {url}) >= max_js_files
               THEN /\ xpc' = [xpc EXCEPT ![t] = "after_scripts"]
                    /\ xi' = xi
               ELSE /\ xpc' = [xpc EXCEPT ![t] = "scripts"]
                    /\ xi' = [xi EXCEPT ![t] = @ + 1]
       ELSE /\ xpc' = [xpc EXCEPT ![t] = "scripts"]
            /\ xi' = [xi EXCEPT ![t] = @ + 1]
            /\ UNCHANGED <<found_js_urls, new_js_urls>>
    /\ lock' = "free"
    /\ UNCHANGED <<fnVars, poolVars, max_js_files, result, page, xk>>

\* line 330
ExtractAfterScripts(t) ==
    /\ xpc[t] = "after_scripts"
    /\ IF Size < max_js_files
       THEN /\ xpc' = [xpc EXCEPT ![t] = "rule"]
            /\ xk' = [xk EXCEPT ![t] = 1]
       ELSE /\ xpc' = [xpc EXCEPT ![t] = "done"]
            /\ xk' = xk
    /\ UNCHANGED <<fnVars, poolVars, scanVars, page, xi, new_js_urls>>

\* lines 341-345: the next textual rule
ExtractRule(t) ==
    /\ xpc[t] = "rule"
    /\ IF xk[t] > NumPatterns \/ Size >= max_js_files
       THEN /\ xpc' = [xpc EXCEPT ![t] = "done"]
            /\ xi' = xi
       ELSE /\ xpc' = [xpc EXCEPT ![t] = "matches"]
            /\ xi' = [xi EXCEPT ![t] = 1]
    /\ UNCHANGED <<fnVars, poolVars, scanVars, page, xk, new_js_urls>>

\* lines 346-351: the next match of the rule, up to the lock
ExtractMatch(t) ==
    /\ xpc[t] = "matches"
    /\ IF xi[t] > Len(page[t].matches[xk[t]]) \/ Size >= max_js_files
       THEN /\ xpc' = [xpc EXCEPT ![t] = "rule"]
            /\ xk' = [xk EXCEPT ![t] = @ + 1]
            /\ xi' = xi
       ELSE IF CurrentUrl(t) # ""
       THEN /\ xpc' = [xpc EXCEPT ![t] = "match_wait"]
            /\ UNCHANGED <<xi, xk>>
       ELSE /\ xi' = [xi EXCEPT ![t] = @ + 1]
            /\ UNCHANGED <<xpc, xk>>
    /\ UNCHANGED <<fnVars, poolVars, scanVars, page, new_js_urls>>

\* lines 353-355: the body of the with statement, and the release
MatchInsert(t) ==
    /\ xpc[t] = "match_locked"
    /\ lock = t
    /\ LET url == CurrentUrl(t) IN
       IF url \notin found_js_urls
       THEN /\ found_js_urls' = found_js_urls \cup {url}
            /\ new_js_urls' = [new_js_urls EXCEPT ![t] = Append(@, url)]
       ELSE UNCHANGED <<found_js_urls, new_js_urls>>
    /\ xpc' = [xpc EXCEPT ![t] = "matches"]
    /\ xi' = [xi EXCEPT ![t] = @ + 1]
    /\ lock' = "free"
    /\ UNCHANGED <<fnVars, poolVars, max_js_files, result, page, xk>>

-----------------------------------------------------------------------------
(* Spec: scan_domain (lines 789-866) on one scanner, scan after scan.  The *)
(* network decides what each fetch gives: the root page, and one response  *)
(* per asset.  The inline scripts of the root page are drawn when line 829 *)
(* reads them.  The workers of the pool are the threads worker1, worker2,  *)
(* ..., one per call of _analyze_single_js; the orchestrator is main.      *)

\* Bounds: the number of elements of a page, the largest max_js_files and
\* the largest max_workers.
MaxRefs == 3
MaxCap  == 2
MaxWorkers == 2

Pages == UNION {[1..n -> ElementPool] : n \in 0..MaxRefs}

\* hashlib.md5(js_url.encode()).hexdigest(), line 767
UrlHash(js_url) == "md5:" \o js_url

\* ---- the bodies the network serves

\* 10 * 1024 * 1024, line 779
MaxContentLength == 10 * 1024 * 1024

\* What self.session.get and raise_for_status give for an asset: ok is FALSE
\* when either raises (transport error, HTTP error, timeout); content_length
\* is len(response.content) and text is response.text.  The body above the
\* ceiling is given by its length, and by a text that holds a secret.
ResponsePool ==
    { [ok |-> FALSE, content_length |-> 0, text |-> ""],
      [ok |-> TRUE, content_length |-> 0, text |-> ""],
      [ok |-> TRUE, content_length |-> 26,
       text |-> "api_key=\"ab12CD34ef56GH78\""],
      [ok |-> TRUE, content_length |-> 36,
       text |-> "x={app_secret:\"Zx81Qw92Er73Ty64\"};"],
      [ok |-> TRUE, content_length |-> MaxContentLength + 1,
       text |-> "apiKey: 'Qq11Ww22Ee33Rr44';"] }

\* the texts of the script tags without src of the root page
InlineScriptLists ==
    { <<>>, <<"  ">>, <<" ", "apiKey: 'ab12CD34ef56';">> }

\* _extract_inline_js, lines 419-433, on the texts of the script tags
\* without src
RECURSIVE ExtractInlineJs(_)
ExtractInlineJs(scripts) ==
    IF scripts = <<>> THEN ""
    ELSE (IF Strip(Head(scripts)) # "" THEN Head(scripts) \o "\n" ELSE "")
            \o ExtractInlineJs(Tail(scripts))

\* the texts the scan analyzes and what _analyze_js_content gives for each,
\* computed once
ScanTexts ==
    {ExtractInlineJs(scripts) : scripts \in InlineScriptLists}
        \cup {response.text : response \in ResponsePool}

KnownAnalyses ==
    { <<text, AnalyzeProcessed(text, BeautifyJs(text), "a.io")>> :
         text \in ScanTexts }

\* _analyze_js_content, lines 670-710
AnalyzeJsContent(js_url, js_content, base_domain) ==
    LET analysis ==
            IF js_content \in ScanTexts /\ base_domain = "a.io"
            THEN (CHOOSE known \in KnownAnalyses : known[1] = js_content)[2]
            ELSE AnalyzeProcessed(js_content, BeautifyJs(js_content),
                                  base_domain)
    IN  [url |-> js_url, size |-> analysis.size,
         findings |-> analysis.findings]

\* the frames of _extract_js_urls before any call, for a set of threads
IdleFrame(threads) ==
    [page |-> [t \in threads |-> LoadPage("", <<>>)],
     xpc |-> [t \in threads |-> "idle"],
     xi |-> [t \in threads |-> 1],
     xk |-> [t \in threads |-> 0],
     new_js_urls |-> [t \in threads |-> <<>>]]

IdleFrames(threads) ==
    /\ page = IdleFrame(threads).page
    /\ xpc = IdleFrame(threads).xpc
    /\ xi = IdleFrame(threads).xi
    /\ xk = IdleFrame(threads).xk
    /\ new_js_urls = IdleFrame(threads).new_js_urls

\* The frames of scan_domain before any call, one per thread that calls it:
\* phase is the position of the call and ret what it returned; result,
\* inline_result and futures (future_to_url) are its locals.
NoScanYet(scans) ==
    /\ phase = [s \in scans |-> "idle"]
    /\ ret = [s \in scans |-> <<>>]
    /\ result = [s \in scans |-> NewResult]
    /\ inline_result = [s \in scans |-> <<>>]
    /\ futures = [s \in scans |-> <<>>]

\* What the network serves: to the scans of Spec (net is "any") every page,
\* inline script and response of the pools; to the scans of SpecShared the
\* one page, without inline script, and the responses of SharedResponses;
\* to the calls of SpecPool (net is "pool") the responses of PoolResponses.
SharedPages == { <<Element("script", "/static/app.js")>> }

SharedResponses ==
    { [ok |-> TRUE, content_length |-> 26,
       text |-> "api_key=\"ab12CD34ef56GH78\""] }

\* Bound: the number of calls submitted.
MaxCalls == 3

\* to the scans of SpecFan (net is "fan") a page of 1 to MaxCalls script
\* tags, with an inline script, and the responses of PoolResponses
FanPage ==
    << Element("script", "/static/app.js"),
       Element("script", "//cdn.a.io/lib.min.js"),
       Element("script", " vendor.js?v=2 "),
       Element("import", "chunk.1.js") >>

FanPages ==
    {SubSeq(FanPage, 1, n) : n \in 1..(IF MaxCalls < 4 THEN MaxCalls ELSE 4)}

ServedPages ==
    IF args.net = "any" THEN Pages
    ELSE IF args.net = "fan" THEN FanPages
    ELSE SharedPages

ServedInline ==
    IF args.net = "any" THEN InlineScriptLists
    ELSE IF args.net = "fan" THEN { <<" ", "apiKey: 'ab12CD34ef56';">> }
    ELSE {<<>>}

PoolResponses ==
    { [ok |-> FALSE, content_length |-> 0, text |-> ""],
      [ok |-> TRUE, content_length |-> 26,
       text |-> "api_key=\"ab12CD34ef56GH78\""] }

ServedResponses ==
    IF args.net = "any" THEN ResponsePool
    ELSE IF args.net \in {"pool", "fan"} THEN PoolResponses
    ELSE SharedResponses

\* JSSecretScanner(max_workers = w, max_js_files = n), lines 43-51; w is 0,
\* with which no executor can be made, or MaxWorkers (every schedule of a
\* smaller pool is a schedule of a larger one)
ScanInit ==
    /\ args = [fn |-> "scan_domain", domain |-> "a.io", net |-> "any",
               callers |-> {"main"}, again |-> TRUE, in_turn |-> FALSE]
    /\ max_js_files \in 1..MaxCap
    /\ max_workers \in {0, MaxWorkers}
    /\ found_js_urls = {}
    /\ analyzed_js = {}
    /\ lock = "free"
    /\ merging = {}
    /\ NoScanYet({"main"})
    /\ IdleFrames({"main"})

\* where scan_domain is not running: before the first call, after the
\* return of line 823, after the return of line 866
Returned == {"returned_823", "returned_866"}

\* the caller s may call scan_domain: args.callers are the threads that call
\* it, args.again says whether they call it again after a return, and
\* args.in_turn whether a call waits for the scans of the other callers to
\* have returned
MayCall(s) ==
    /\ s \in args.callers
    /\ phase[s] = "idle" \/ (args.again /\ phase[s] \in Returned)
    /\ args.in_turn =>
          \A o \in args.callers \ {s} : phase[o] \in {"idle"} \cup Returned

\* ScanStart without lines 795-796
ScanStartKeeping(s) ==
    /\ MayCall(s)
    /\ args.fn = "scan_domain"
    /\ result' = [result EXCEPT ![s] = NewResult]
    /\ phase' = [phase EXCEPT ![s] = "fetch_https"]
    /\ ret' = [ret EXCEPT ![s] = <<>>]
    /\ inline_result' = [inline_result EXCEPT ![s] = <<>>]
    /\ futures' = [futures EXCEPT ![s] = <<>>]
    /\ new_js_urls' = [new_js_urls EXCEPT ![s] = <<>>]
    /\ UNCHANGED <<args, max_js_files, max_workers, lock, merging, page, xpc,
                   xi, xk, analyzed_js, found_js_urls>>

\* lines 791-812: the state of the scan before is cleared
ScanStart(s) ==
    /\ MayCall(s)
    /\ args.fn = "scan_domain"
    /\ analyzed_js' = {}
    /\ found_js_urls' = {}
    /\ result' = [result EXCEPT ![s] = NewResult]
    /\ phase' = [phase EXCEPT ![s] = "fetch_https"]
    /\ ret' = [ret EXCEPT ![s] = <<>>]
    /\ inline_result' = [inline_result EXCEPT ![s] = <<>>]
    /\ futures' = [futures EXCEPT ![s] = <<>>]
    /\ new_js_urls' = [new_js_urls EXCEPT ![s] = <<>>]
    /\ UNCHANGED <<args, max_js_files, max_workers, lock, merging, page, xpc,
                   xi, xk>>

\* lines 816-819: self._get_page_content('https://' + domain); not ok is
\* None (an exception, lines 299-301) or an empty body
ScanFetchHttps(s) ==
    /\ phase[s] = "fetch_https"
    /\ \E ok \in BOOLEAN :
          IF ok
          THEN \E content \in ServedPages :
                  /\ page' = [page EXCEPT ![s] =
                                 LoadPage("https://" \o args.domain, content)]
                  /\ phase' = [phase EXCEPT ![s] = "extract"]
          ELSE /\ page' = page
               /\ phase' = [phase EXCEPT ![s] = "fetch_http"]
    /\ UNCHANGED <<args, poolVars, ret, scanVars, xpc, xi, xk, new_js_urls>>

\* lines 819-821: the second attempt, over http; "unreachable" is line 821
\* with main_content None or empty
ScanFetchHttp(s) ==
    /\ phase[s] = "fetch_http"
    /\ \E ok \in BOOLEAN :
          IF ok
          THEN /\ \E content \in ServedPages :
                     page' = [page EXCEPT ![s] =
                                 LoadPage("http://" \o args.domain, content)]
               /\ phase' = [phase EXCEPT ![s] = "extract"]
          ELSE /\ page' = page
               /\ phase' = [phase EXCEPT ![s] = "unreachable"]
    /\ UNCHANGED <<args, poolVars, ret, scanVars, xpc, xi, xk, new_js_urls>>

\* as ScanUnreachable, going on with an empty page instead of returning
ScanUnreachableGoesOn(s) ==
    /\ phase[s] = "unreachable"
    /\ page' = [page EXCEPT ![s] =
                   LoadPage("http://" \o args.domain, <<>>)]
    /\ phase' = [phase EXCEPT ![s] = "extract"]
    /\ UNCHANGED <<args, poolVars, ret, scanVars, xpc, xi, xk, new_js_urls>>

\* lines 821-823: no transport gave the page; the message of line 822 is
\* given in English
ScanUnreachable(s) ==
    /\ phase[s] = "unreachable"
    /\ result' = [result EXCEPT
                     ![s].error = "cannot access the target domain"]
    /\ ret' = [ret EXCEPT ![s] =
                  <<[result[s] EXCEPT
                        !.error = "cannot access the target domain"]>>]
    /\ phase' = [phase EXCEPT ![s] = "returned_823"]
    /\ UNCHANGED <<args, poolVars, max_js_files, found_js_urls, lock, xVars>>

\* line 826: js_urls = self._extract_js_urls(target_url, main_content)
ScanCallExtract(s) ==
    /\ phase[s] = "extract"
    /\ xpc[s] = "idle"
    /\ xpc' = [xpc EXCEPT ![s] = "start"]
    /\ phase' = [phase EXCEPT ![s] = "extracting"]
    /\ UNCHANGED <<args, poolVars, ret, scanVars, page, xi, xk, new_js_urls>>

\* lines 829-835: the inline script is analyzed and merged, the assets are
\* counted; js_urls is new_js_urls[s], and the rest of the frame of
\* _extract_js_urls is left
ScanInline(s) ==
    /\ phase[s] = "extracting"
    /\ xpc[s] = "done"
    /\ \E scripts \in ServedInline :
       \E inline_js \in {ExtractInlineJs(scripts)} :
          IF inline_js # ""
          THEN \E analysis \in {AnalyzeJsContent(
                                   page[s].base_url \o "#inline",
                                   inline_js, args.domain)} :
                  /\ inline_result' = [inline_result EXCEPT ![s] = <<analysis>>]
                  /\ result' =
                        [result EXCEPT
                            ![s].findings = MergeFindings(@, analysis.findings),
                            ![s].js_files_count = Len(new_js_urls[s])]
          ELSE /\ inline_result' = [inline_result EXCEPT ![s] = <<>>]
               /\ result' = [result EXCEPT
                                ![s].js_files_count = Len(new_js_urls[s])]
    /\ page' = [page EXCEPT ![s] = LoadPage("", <<>>)]
    /\ xpc' = [xpc EXCEPT ![s] = "idle"]
    /\ xi' = [xi EXCEPT ![s] = 1]
    /\ xk' = [xk EXCEPT ![s] = 0]
    /\ phase' = [phase EXCEPT ![s] = "submit"]
    /\ UNCHANGED <<args, ret, max_js_files, found_js_urls, lock, new_js_urls,
                   max_workers, analyzed_js, futures, merging>>

\* js_result and js_result.get('findings'), line 850
HasFindings(js_result) ==
    /\ "findings" \in DOMAIN js_result
    /\ DOMAIN js_result.findings # {}

\* what a call has before it fetched
NoResponse == [ok |-> FALSE, content_length |-> 0, text |-> ""]

\* a call of _analyze_single_js the executor holds: pc is "queued", then
\* "wait" (line 769), "locked" (line 770) and "adding" (line 772), "fetch"
\* (lines 774-787), "done",
\* and, once as_completed gave it to the orchestrator, "merging" (line 851)
\* and "merged"; fetches counts the requests of line 776, response is what
\* the last one gave, and js_result is what the call returned, <<>> for None
Future(js_url) ==
    [url |-> js_url, pc |-> "queued", fetches |-> 0,
     response |-> NoResponse, js_result |-> <<>>]

\* an exception without a message
NoMessage == ""

\* str(e) of the ValueError that ThreadPoolExecutor(max_workers = w) raises
\* for w <= 0, lines 840 and 862
ValueErrorMessage == "max_workers must be greater than 0"

\* lines 838-844: the executor is made and the calls are submitted; a
\* max_workers of 0 or less makes ThreadPoolExecutor raise ValueError, which
\* lines 861-863 turn into the error of the result
ScanSubmit(s) ==
    /\ phase[s] = "submit"
    /\ LET js_urls == new_js_urls[s] IN
       IF js_urls = <<>>
       THEN /\ phase' = [phase EXCEPT ![s] = "pool"]
            /\ UNCHANGED <<futures, result>>
       ELSE IF max_workers <= 0
       THEN /\ result' = [result EXCEPT ![s].error = ValueErrorMessage]
            /\ phase' = [phase EXCEPT ![s] = "return"]
            /\ UNCHANGED futures
       ELSE /\ futures' = [futures EXCEPT ![s] =
                           [i \in 1..Len(js_urls) |-> Future(js_urls[i])]]
            /\ phase' = [phase EXCEPT ![s] = "pool"]
            /\ UNCHANGED result
    /\ UNCHANGED <<args, ret, max_js_files, found_js_urls, lock, xVars,
                   max_workers, analyzed_js, inline_result, merging>>

\* ---- _analyze_single_js(js_urls[i], domain) on a thread of the pool

Worker(s, i) == s \o "-worker" \o ToString(i)

\* the calls a thread of the pool is running
Running(s) ==
    {i \in DOMAIN futures[s] : futures[s][i].pc \in {"wait", "locked", "adding", "fetch"}}

\* as WorkerStart, with a thread for every call
WorkerStartUnlimited(s, i) ==
    /\ futures[s][i].pc = "queued"
    /\ \A j \in 1..(i - 1) : futures[s][j].pc # "queued"
    /\ futures' = [futures EXCEPT ![s][i].pc = "wait"]
    /\ UNCHANGED <<fnVars, scanVars, xVars, max_workers, analyzed_js,
                   inline_result, merging>>

\* a thread of the pool takes the oldest call of the queue
WorkerStart(s, i) ==
    /\ futures[s][i].pc = "queued"
    /\ \A j \in 1..(i - 1) : futures[s][j].pc # "queued"
    /\ Cardinality(Running(s)) < max_workers
    /\ futures' = [futures EXCEPT ![s][i].pc = "wait"]
    /\ UNCHANGED <<fnVars, scanVars, xVars, max_workers, analyzed_js,
                   inline_result, merging>>

\* as WorkerAcquire, entering the block whoever holds the lock
WorkerAcquireUnlocked(s, i) ==
    /\ futures[s][i].pc = "wait"
    /\ futures' = [futures EXCEPT ![s][i].pc = "locked"]
    /\ UNCHANGED <<fnVars, scanVars, xVars, max_workers, analyzed_js,
                   inline_result, merging>>

\* line 769: with self.lock
WorkerAcquire(s, i) ==
    /\ futures[s][i].pc = "wait"
    /\ lock = "free"
    /\ lock' = Worker(s, i)
    /\ futures' = [futures EXCEPT ![s][i].pc = "locked"]
    /\ UNCHANGED <<fnVars, max_js_files, found_js_urls, result, xVars,
                   max_workers, analyzed_js, inline_result, merging>>

\* lines 770-771: the digest is looked up; when it is there the lock is
\* released and None goes back through line 873
WorkerCheck(s, i) ==
    /\ futures[s][i].pc = "locked"
    /\ IF UrlHash(futures[s][i].url) \in analyzed_js
       THEN /\ futures' = [futures EXCEPT ![s][i].pc = "done",
                                          ![s][i].js_result = <<>>]
            /\ lock' = "free"
       ELSE /\ futures' = [futures EXCEPT ![s][i].pc = "adding"]
            /\ UNCHANGED lock
    /\ UNCHANGED <<fnVars, max_js_files, found_js_urls, result, xVars,
                   max_workers, analyzed_js, inline_result, merging>>

\* as WorkerAdd, with the lock kept after the block
WorkerAddHolding(s, i) ==
    /\ futures[s][i].pc = "adding"
    /\ analyzed_js' = analyzed_js \cup {UrlHash(futures[s][i].url)}
    /\ futures' = [futures EXCEPT ![s][i].pc = "fetch"]
    /\ UNCHANGED <<fnVars, max_js_files, found_js_urls, result, xVars, lock,
                   max_workers, inline_result, merging>>

\* line 772, and the end of the with block
WorkerAdd(s, i) ==
    /\ futures[s][i].pc = "adding"
    /\ analyzed_js' = analyzed_js \cup {UrlHash(futures[s][i].url)}
    /\ futures' = [futures EXCEPT ![s][i].pc = "fetch"]
    /\ lock' = "free"
    /\ UNCHANGED <<fnVars, max_js_files, found_js_urls, result, xVars,
                   max_workers, inline_result, merging>>

\* as JsContent, without the ceiling of lines 779-781
JsContentNoCeiling(response) ==
    IF ~response.ok THEN <<>> ELSE <<response.text>>

\* What _get_js_content returns after the request of line 776: <<>> for
\* None (an exception, lines 785-787, or a body above the ceiling, lines
\* 779-781), <<response.text>> otherwise.
JsContent(response) ==
    IF ~response.ok THEN <<>>
    ELSE IF response.content_length > MaxContentLength THEN <<>>
    ELSE <<response.text>>

\* lines 871-873 of _analyze_single_js
AnalyzeIfContent(js_url, js_content, base_domain) ==
    IF js_content # <<>> /\ js_content[1] # ""
    THEN AnalyzeJsContent(js_url, js_content[1], base_domain)
    ELSE <<>>

\* as WorkerFetch, with the worker merging what it found into the result
WorkerFetchMerging(s, i) ==
    /\ futures[s][i].pc = "fetch"
    /\ \E response \in ServedResponses :
       \E js_result \in {AnalyzeIfContent(futures[s][i].url,
                                          JsContent(response), args.domain)} :
          /\ futures' = [futures EXCEPT ![s][i].pc = "done",
                                        ![s][i].fetches = @ + 1,
                                        ![s][i].response = response,
                                        ![s][i].js_result = js_result]
          /\ result' =
                IF HasFindings(js_result)
                THEN [result EXCEPT
                         ![s].findings = MergeFindings(@, js_result.findings)]
                ELSE result
    /\ UNCHANGED <<fnVars, max_js_files, found_js_urls, lock, xVars,
                   max_workers, analyzed_js, inline_result, merging>>

\* lines 774-787 and 871-873: the request, the ceiling, the analysis
WorkerFetch(s, i) ==
    /\ futures[s][i].pc = "fetch"
    /\ \E response \in ServedResponses :
          futures' =
             [futures EXCEPT
                ![s][i].pc = "done",
                ![s][i].fetches = @ + 1,
                ![s][i].response = response,
                ![s][i].js_result =
                    AnalyzeIfContent(futures[s][i].url, JsContent(response),
                                     args.domain)]
    /\ UNCHANGED <<fnVars, scanVars, xVars, max_workers, analyzed_js,
                   inline_result, merging>>

WorkerStep(s, i) ==
    \/ WorkerStart(s, i)
    \/ WorkerAcquire(s, i)
    \/ WorkerCheck(s, i)
    \/ WorkerAdd(s, i)
    \/ WorkerFetch(s, i)

\* ---- the orchestrator, lines 847-856

\* as ScanTakeCompleted, with a call that returned None ending the scan
\* through lines 861-863
ScanTakeCompletedRaising(s, i) ==
    /\ phase[s] = "pool"
    /\ s \notin merging
    /\ futures[s][i].pc = "done"
    /\ IF HasFindings(futures[s][i].js_result)
       THEN /\ futures' = [futures EXCEPT ![s][i].pc = "merging"]
            /\ merging' = merging \cup {s}
            /\ UNCHANGED <<phase, result>>
       ELSE /\ futures' = [futures EXCEPT ![s][i].pc = "merged"]
            /\ IF DOMAIN futures[s][i].js_result = {}
               THEN /\ result' = [result EXCEPT ![s].error = "no content"]
                    /\ phase' = [phase EXCEPT ![s] = "return"]
               ELSE UNCHANGED <<phase, result>>
            /\ UNCHANGED merging
    /\ UNCHANGED <<args, ret, max_js_files, found_js_urls, lock, xVars,
                   max_workers, analyzed_js, inline_result>>

\* lines 847-850: as_completed gives a call that ended
ScanTakeCompleted(s, i) ==
    /\ phase[s] = "pool"
    /\ s \notin merging
    /\ futures[s][i].pc = "done"
    /\ IF HasFindings(futures[s][i].js_result)
       THEN /\ futures' = [futures EXCEPT ![s][i].pc = "merging"]
            /\ merging' = merging \cup {s}
       ELSE /\ futures' = [futures EXCEPT ![s][i].pc = "merged"]
            /\ UNCHANGED merging
    /\ UNCHANGED <<fnVars, scanVars, xVars, max_workers, analyzed_js,
                   inline_result>>

\* line 851: self._merge_findings(result['findings'], js_result['findings'])
ScanMerge(s, i) ==
    /\ phase[s] = "pool"
    /\ s \in merging
    /\ futures[s][i].pc = "merging"
    /\ result' = [result EXCEPT
                     ![s].findings =
                         MergeFindings(@, futures[s][i].js_result.findings)]
    /\ futures' = [futures EXCEPT ![s][i].pc = "merged"]
    /\ merging' = merging \ {s}
    /\ UNCHANGED <<fnVars, max_js_files, found_js_urls, lock, xVars,
                   max_workers, analyzed_js, inline_result>>

\* line 858, once the loop of line 847 has seen every call
ScanSucceed(s) ==
    /\ phase[s] = "pool"
    /\ \A i \in DOMAIN futures[s] : futures[s][i].pc = "merged"
    /\ result' = [result EXCEPT ![s].success = TRUE]
    /\ phase' = [phase EXCEPT ![s] = "return"]
    /\ UNCHANGED <<args, ret, max_js_files, found_js_urls, lock, xVars,
                   poolVars>>

\* lines 865-866
ScanReturn(s) ==
    /\ phase[s] = "return"
    /\ result' = [result EXCEPT ![s] = WithExecutionTime(@)]
    /\ ret' = [ret EXCEPT ![s] = <<WithExecutionTime(result[s])>>]
    /\ phase' = [phase EXCEPT ![s] = "returned_866"]
    /\ UNCHANGED <<args, max_js_files, found_js_urls, lock, xVars, poolVars>>

ExtractStep(t) ==
    \/ ExtractStart(t)
    \/ ExtractScript(t)
    \/ AcquireLock(t)
    \/ ScriptInsert(t)
    \/ ExtractAfterScripts(t)
    \/ ExtractRule(t)
    \/ ExtractMatch(t)
    \/ MatchInsert(t)

\* scan_domain on thread s, with the calls of its pool
ScanStep(s) ==
    \/ ScanStart(s)
    \/ ScanFetchHttps(s)
    \/ ScanFetchHttp(s)
    \/ ScanUnreachable(s)
    \/ ScanCallExtract(s)
    \/ ExtractStep(s)
    \/ ScanInline(s)
    \/ ScanSubmit(s)
    \/ \E i \in DOMAIN futures[s] : WorkerStep(s, i)
    \/ \E i \in DOMAIN futures[s] : ScanTakeCompleted(s, i)
    \/ \E i \in DOMAIN futures[s] : ScanMerge(s, i)
    \/ ScanSucceed(s)
    \/ ScanReturn(s)

Next == ScanStep("main")

Spec == ScanInit /\ [][Next]_vars

-----------------------------------------------------------------------------
(* Claims about the asset locator in a scan, checked under Spec.           *)

\* the distinct locators the script tags of the page of thread t give
ValidScriptUrls(t) ==
    { url \in { NormalizeJsUrl(src, page[t].base_url) :
                  src \in {r \in Range(ScriptSrcs(page[t].content)) : Strip(r) # ""} } :
        url # "" /\ IsValidJsUrl(url) }

\* C1: in every state of a scan found_js_urls holds at most max_js_files
\* locators; when the script tags of the page give max_js_files distinct
\* locators or more, exactly max_js_files are recorded and returned and the
\* textual rules are not run.
C1_FoundNeverExceedsMax ==
    args.fn = "scan_domain" =>
        /\ Cardinality(found_js_urls) <= max_js_files
        /\ (xpc["main"] = "done"
              /\ Cardinality(ValidScriptUrls("main")) >= max_js_files)
            => /\ Cardinality(found_js_urls) = max_js_files
               /\ Len(new_js_urls["main"]) = max_js_files
               /\ xk["main"] = 0

\* The extraction ended on a page whose script tags give more distinct
\* locators than the maximum of 2.
C1_Witness ==
    /\ args.fn = "scan_domain"
    /\ xpc["main"] = "done"
    /\ max_js_files = 2
    /\ Cardinality(ValidScriptUrls("main")) > max_js_files
    /\ Cardinality(found_js_urls) = 2
    /\ xk["main"] = 0

-----------------------------------------------------------------------------
(* Claims about the failure paths of a scan, checked under Spec.           *)

\* a result dict that reports failure with a cause and without findings
FailedWithoutFindings(r) ==
    /\ r.success = FALSE
    /\ r.error \notin {"None", ""}
    /\ DOMAIN r.findings = {}

\* C11: when neither https nor http gave the root page, the step that
\* follows is the return of a result with success False, an error and no
\* findings, and no asset was fetched or analyzed: nothing was extracted,
\* submitted or recorded in analyzed_js, and the inline analysis did not run.
C11_UnreachableRootReturnsFailure ==
    [][phase["main"] = "unreachable" =>
          /\ phase'["main"] = "returned_823"
          /\ Len(ret'["main"]) = 1
          /\ FailedWithoutFindings(ret'["main"][1])
          /\ ret'["main"][1].js_files_count = 0
          /\ futures'["main"] = <<>>
          /\ analyzed_js' = {}
          /\ found_js_urls' = {}
          /\ inline_result'["main"] = <<>>
          /\ new_js_urls'["main"] = <<>>]_vars

\* Both fetches of a scan failed and the scan returned.
C11_Witness ==
    /\ phase["main"] = "returned_823"
    /\ Len(ret["main"]) = 1
    /\ ret["main"][1].error = "cannot access the target domain"
    /\ ~ret["main"][1].success
    /\ futures["main"] = <<>>

\* MergeFindings of each of the dicts, in turn, into an empty dict
RECURSIVE MergeAll(_)
MergeAll(dicts) ==
    IF dicts = <<>> THEN EmptyDict
    ELSE MergeFindings(MergeAll(SubSeq(dicts, 1, Len(dicts) - 1)),
                       dicts[Len(dicts)])

\* the findings of the calls of the set that returned a dict, by index
FindingsOfCalls(calls) ==
    LET returned == {i \in calls : "findings" \in DOMAIN futures["main"][i].js_result}
    IN  [k \in 1..Cardinality(returned) |->
            futures["main"][CHOOSE i \in returned :
                       Cardinality({j \in returned : j <= i}) = k]
               .js_result.findings]

\* the findings of the inline script, when it was analyzed
InlineFindings == [k \in 1..Len(inline_result["main"]) |-> inline_result["main"][k].findings]

\* the call got a body above the ceiling
Oversize(call) ==
    /\ call.fetches > 0
    /\ call.response.ok
    /\ call.response.content_length > MaxContentLength

\* all the items of a findings dict
ItemsOf(findings) == UNION {Range(findings[c]) : c \in DOMAIN findings}

\* all the items a call returned
ItemsOfCall(call) ==
    IF "findings" \in DOMAIN call.js_result
    THEN ItemsOf(call.js_result.findings)
    ELSE {}

\* C12: a call whose body is above the ceiling returns None; its locator is
\* in found_js_urls, counted in js_files_count and its digest is in
\* analyzed_js; the findings of the scan are those of the inline script and
\* of the other calls, and the scan returns success True.
C12_OversizeAssetIsDiscarded ==
    args.fn = "scan_domain" =>
       \A i \in DOMAIN futures["main"] :
          (futures["main"][i].pc \in {"done", "merging", "merged"}
                /\ Oversize(futures["main"][i])) =>
             /\ DOMAIN futures["main"][i].js_result = {}
             /\ futures["main"][i].pc # "merging"
             /\ futures["main"][i].url \in found_js_urls
             /\ UrlHash(futures["main"][i].url) \in analyzed_js
             /\ result["main"].js_files_count = Len(futures["main"])
             /\ phase["main"] \in Returned =>
                   /\ ret["main"][1].success
                   /\ ret["main"][1].error = "None"
                   /\ ret["main"][1].js_files_count = Len(futures["main"])
                   /\ ret["main"][1].findings =
                         MergeAll(InlineFindings
                                    \o FindingsOfCalls(DOMAIN futures["main"] \ {i}))

\* A scan returned after one asset was above the ceiling and another gave a
\* finding.
C12_Witness ==
    /\ phase["main"] = "returned_866"
    /\ \E i \in DOMAIN futures["main"] : Oversize(futures["main"][i])
    /\ \E i \in DOMAIN futures["main"] : "ab12CD34ef56GH78" \in ItemsOfCall(futures["main"][i])
    /\ ret["main"][1].success
    /\ ItemsOf(ret["main"][1].findings) = {"ab12CD34ef56GH78"}

\* the request of the call raised (transport error, HTTP error, timeout)
FetchFailed(call) == call.fetches > 0 /\ ~call.response.ok

\* the findings the body a call got holds: those of its text when the
\* request gave one under the ceiling, none otherwise
FindingsInBody(call) ==
    IF /\ call.fetches > 0
       /\ call.response.ok
       /\ call.response.content_length <= MaxContentLength
       /\ call.response.text # ""
    THEN AnalyzeJsContent(call.url, call.response.text, args.domain).findings
    ELSE EmptyDict

\* the items of category c of a findings dict
ItemsIn(findings, c) ==
    IF c \in DOMAIN findings THEN Range(findings[c]) ELSE {}

\* C13: a scan that got its root page and made its pool returns success
\* True whatever requests of assets failed, and for each category the
\* findings returned are, sorted and without duplicates, the findings of
\* the inline script together with those in the bodies of the assets whose
\* request succeeded.
C13_AssetFailuresDoNotFailTheScan ==
    (args.fn = "scan_domain" /\ phase["main"] = "returned_866" /\ max_workers > 0) =>
       /\ ret["main"][1].success
       /\ ret["main"][1].error = "None"
       /\ \A c \in Categories :
             ItemsIn(ret["main"][1].findings, c) =
                UNION ({ItemsIn(inline_result["main"][k].findings, c) :
                           k \in DOMAIN inline_result["main"]}
                       \cup {ItemsIn(FindingsInBody(futures["main"][i]), c) :
                                i \in DOMAIN futures["main"]})
       /\ \A c \in DOMAIN ret["main"][1].findings :
             /\ c \in Categories
             /\ ret["main"][1].findings[c] # <<>>
             /\ IsStrictlySorted(ret["main"][1].findings[c])

\* A scan returned after the request of one asset failed and the body of
\* another gave a finding the inline script does not have.
C13_Witness ==
    /\ phase["main"] = "returned_866"
    /\ ret["main"][1].success
    /\ \E i \in DOMAIN futures["main"] : FetchFailed(futures["main"][i])
    /\ inline_result["main"] # <<>>
    /\ \E i \in DOMAIN futures["main"] :
          /\ ItemsOfCall(futures["main"][i]) # {}
          /\ ItemsOfCall(futures["main"][i]) \cap ItemsOf(inline_result["main"][1].findings) = {}
    /\ Cardinality(ItemsOf(ret["main"][1].findings)) = 2

\* C14: every result scan_domain returns has a boolean success; with
\* success True its error is None, with success False its error is a
\* message that is not empty.
C14_ErrorSetExactlyOnFailure ==
    (args.fn = "scan_domain" /\ phase["main"] \in Returned) =>
       /\ Len(ret["main"]) = 1
       /\ ret["main"][1].success \in BOOLEAN
       /\ ret["main"][1].success => ret["main"][1].error = "None"
       /\ ~ret["main"][1].success => ret["main"][1].error \notin {"None", ""}

\* A scan returned through lines 861-866 after the executor could not be
\* made, with the findings of the inline script in its result.
C14_Witness ==
    /\ phase["main"] = "returned_866"
    /\ ~ret["main"][1].success
    /\ ret["main"][1].error = ValueErrorMessage
    /\ ret["main"][1].js_files_count > 0
    /\ DOMAIN ret["main"][1].findings # {}

\* C17: in a scan, only the orchestrator is ever inside _merge_findings on
\* the findings of the result; while the pool runs, a step changes these
\* findings only when the orchestrator is inside _merge_findings with a
\* call that had ended, it merges what this call returned, and no call of
\* the pool moves in that step.
C17_OnlyOrchestratorMerges ==
    [][/\ merging' \subseteq {"main"}
       /\ \A i \in DOMAIN futures'["main"] :
             futures'["main"][i].pc = "merging" =>
                /\ "main" \in merging'
                /\ i \in DOMAIN futures["main"]
                /\ futures["main"][i].pc \in {"done", "merging"}
       /\ (phase["main"] = "pool"
             /\ result'["main"].findings # result["main"].findings) =>
             /\ "main" \in merging
             /\ \E i \in DOMAIN futures["main"] :
                   /\ futures["main"][i].pc = "merging"
                   /\ futures'["main"] =
                         [futures["main"] EXCEPT ![i].pc = "merged"]
                   /\ result'["main"].findings =
                         MergeFindings(result["main"].findings,
                                       futures["main"][i].js_result.findings)
      ]_vars

\* The orchestrator is inside _merge_findings while a call of the pool is
\* between its request and its return.
C17_Witness ==
    /\ args.fn = "scan_domain"
    /\ "main" \in merging
    /\ \E i \in DOMAIN futures["main"] : futures["main"][i].pc = "merging"
    /\ \E i \in DOMAIN futures["main"] : futures["main"][i].pc = "fetch"

-----------------------------------------------------------------------------
(* SpecShared: scan_domain called on one scanner object by one thread, or  *)
(* by two threads at the same time, once each.  Every scan is of the same  *)
(* site: its root page has one script tag, whose body holds one secret.    *)

SharedScans == {"scan1", "scan2"}

SharedInit ==
    /\ \E callers \in {{"scan1"}, SharedScans} :
          args = [fn |-> "scan_domain", domain |-> "a.io", net |-> "shared",
                  callers |-> callers, again |-> FALSE, in_turn |-> FALSE]
    /\ max_js_files \in 1..MaxCap
    /\ max_workers = MaxWorkers
    /\ found_js_urls = {}
    /\ analyzed_js = {}
    /\ lock = "free"
    /\ merging = {}
    /\ NoScanYet(SharedScans)
    /\ IdleFrames(SharedScans)

SharedNext == \E s \in SharedScans : ScanStep(s)

SpecShared == SharedInit /\ [][SharedNext]_vars

-----------------------------------------------------------------------------
(* Claims about scans that share a scanner, checked under SpecShared.      *)

\* What a scan of the site returns through line 866 when no other scan
\* runs: one asset, and the findings of its body.
AloneResult ==
    WithExecutionTime(
        [NewResult EXCEPT
            !.findings =
                MergeAll([k \in 1..1 |->
                    AnalyzeJsContent("", (CHOOSE r \in SharedResponses : TRUE).text,
                                     "a.io").findings]),
            !.js_files_count = 1,
            !.success = TRUE])

\* the scan of thread s has its locators and digests in the sets of the
\* scanner
OwnEntriesKept(s) ==
    /\ phase[s] \in {"submit", "pool", "return"} =>
          Range(new_js_urls[s]) \subseteq found_js_urls
    /\ \A i \in DOMAIN futures[s] :
          futures[s][i].pc \in {"fetch", "done", "merging", "merged"} =>
             UrlHash(futures[s][i].url) \in analyzed_js

\* C15: with one scan or two scans at the same time on one scanner, every
\* scan that got the root page returns what it returns alone, and while a
\* scan runs the locators it found stay in found_js_urls and the digests it
\* added stay in analyzed_js.
C15_ScansOnOneScannerDoNotInterfere ==
    \A s \in DOMAIN phase :
       /\ phase[s] = "returned_866" => ret[s][1] = AloneResult
       /\ OwnEntriesKept(s)

\* the same for a scanner that a single thread uses
ScanAloneReturnsAloneResult ==
    args.callers = {"scan1"} => C15_ScansOnOneScannerDoNotInterfere

-----------------------------------------------------------------------------
(* SpecAgain: scan_domain called on one scanner object again and again, by *)
(* two callers in turn: a call is made when no scan is running.  Every     *)
(* scan is of the site of SpecShared.                                      *)

AgainInit ==
    /\ args = [fn |-> "scan_domain", domain |-> "a.io", net |-> "shared",
               callers |-> SharedScans, again |-> TRUE, in_turn |-> TRUE]
    /\ max_js_files \in 1..MaxCap
    /\ max_workers \in 1..MaxWorkers
    /\ found_js_urls = {}
    /\ analyzed_js = {}
    /\ lock = "free"
    /\ merging = {}
    /\ NoScanYet(SharedScans)
    /\ IdleFrames(SharedScans)

AgainNext == \E s \in SharedScans : ScanStep(s)

SpecAgain == AgainInit /\ [][AgainNext]_vars

\* C24: when the scans on one scanner run one after the other, every scan
\* starts with found_js_urls and analyzed_js empty, requests every locator
\* it submits, also one that a scan before requested, and returns what a
\* scan on a new scanner returns.
C24_ScanStartsFromEmptySets ==
    args.in_turn =>
        \A s \in SharedScans :
           /\ phase[s] = "fetch_https" =>
                 found_js_urls = {} /\ analyzed_js = {}
           /\ \A i \in DOMAIN futures[s] :
                 futures[s][i].pc \in {"done", "merging", "merged"} =>
                    futures[s][i].fetches = 1
           /\ phase[s] = "returned_866" => ret[s][1] = AloneResult

\* The scans of both callers returned, one after the other had returned
\* (the frame of the earlier one still holds what it returned), and both
\* requested the same locator.
C24_Witness ==
    /\ args.in_turn
    /\ phase["scan1"] = "returned_866"
    /\ phase["scan2"] = "returned_866"
    /\ \A s \in SharedScans :
          /\ Len(futures[s]) = 1
          /\ futures[s][1].url = "https://a.io/static/app.js"
          /\ futures[s][1].fetches = 1
          /\ ret[s][1].js_files_count = 1

-----------------------------------------------------------------------------
(* SpecFan: one scan of a site whose root page has 1 to MaxCalls script    *)
(* tags and an inline script, on a scanner of 1 to MaxWorkers workers that *)
(* takes every asset.                                                      *)

FanInit ==
    /\ args = [fn |-> "scan_domain", domain |-> "a.io", net |-> "fan",
               callers |-> {"main"}, again |-> FALSE, in_turn |-> FALSE]
    /\ max_js_files = Len(FanPage)
    /\ max_workers \in 1..MaxWorkers
    /\ found_js_urls = {}
    /\ analyzed_js = {}
    /\ lock = "free"
    /\ merging = {}
    /\ NoScanYet({"main"})
    /\ IdleFrames({"main"})

FanNext == ScanStep("main")

SpecFan == FanInit /\ [][FanNext]_vars

\* C25: the calls the pool is running are never more than max_workers, and
\* a call has left the queue only after the root page was fetched and the
\* inline script analyzed.
C25_AtMostMaxWorkersRunning ==
    args.net = "fan" =>
        /\ Cardinality(Running("main")) <= max_workers
        /\ \A i \in DOMAIN futures["main"] :
              (futures["main"][i].pc # "queued"
                  \/ futures["main"][i].fetches > 0) =>
                 /\ phase["main"] \in {"pool", "return", "returned_866"}
                 /\ inline_result["main"] # <<>>
                 /\ result["main"].js_files_count = Len(futures["main"])

\* More calls than workers: max_workers calls are running, one is waiting in
\* the queue.
C25_Witness ==
    /\ args.net = "fan"
    /\ Len(futures["main"]) > max_workers
    /\ Cardinality(Running("main")) = max_workers
    /\ \A i \in Running("main") : futures["main"][i].pc = "fetch"
    /\ \E i \in DOMAIN futures["main"] : futures["main"][i].pc = "queued"

\* ---- SpecLive: a scan of the site of SpecFan, with max_workers from 0,
\* by threads that go on running

LiveInit ==
    /\ args = [fn |-> "scan_domain", domain |-> "a.io", net |-> "fan",
               callers |-> {"main"}, again |-> FALSE, in_turn |-> FALSE]
    /\ max_js_files = Len(FanPage)
    /\ max_workers \in 0..MaxWorkers
    /\ found_js_urls = {}
    /\ analyzed_js = {}
    /\ lock = "free"
    /\ merging = {}
    /\ NoScanYet({"main"})
    /\ IdleFrames({"main"})

LiveNext == ScanStep("main")

\* While a thread of the scan can take a step, one is taken: the calling
\* thread and the threads of the pool are scheduled by the interpreter, and
\* a request ends with a response or with an exception after self.timeout
\* (lines 776 and 785), which is the one step WorkerFetch.
SpecLive ==
    /\ LiveInit
    /\ [][LiveNext]_vars
    /\ WF_vars(LiveNext)

\* scan_domain was called and has not returned
Scanning(s) == phase[s] \notin {"idle"} \cup Returned

\* scan_domain has returned its result, and no call of its pool is waiting
\* or running
ScanEnded(s) ==
    /\ phase[s] \in Returned
    /\ ret[s] = <<result[s]>>
    /\ \A i \in DOMAIN futures[s] : futures[s][i].pc = "merged"

\* C27: a scan that was started returns its result, with every call given
\* to the pool ended and seen by the loop of line 847: the calling thread
\* never waits for ever.
C27_ScanTerminates == Scanning("main") ~> ScanEnded("main")

\* a scan returned after two calls of the pool ended, one of them with a
\* request that failed
C27_Witness ==
    /\ ScanEnded("main")
    /\ Len(futures["main"]) = 2
    /\ max_workers = 1
    /\ \E i \in DOMAIN futures["main"] : ~futures["main"][i].response.ok

\* C28: a result returned with success False has no findings.  (The scans
\* of Spec with max_workers 0 return through lines 861-866 after line 833
\* merged the findings of the inline script.)
C28_FailedResultHasNoFindings ==
    \A s \in DOMAIN phase :
        (phase[s] \in Returned /\ ~ret[s][1].success) =>
            DOMAIN ret[s][1].findings = {}

\* C29: in the findings of a scan that returned with success True, no two
\* different findings of a category are similar under _items_are_similar,
\* whichever texts they come from.  (_merge_findings joins the lists of the
\* texts without collapsing: a finding of the inline script stays beside a
\* finding of an asset that contains it.)
C29_NoSimilarFindingsInAggregate ==
    \A s \in DOMAIN phase :
        (phase[s] = "returned_866" /\ ret[s][1].success) =>
            \A c \in DOMAIN ret[s][1].findings :
                \A i, j \in DOMAIN ret[s][1].findings[c] :
                    i # j => ~ItemsAreSimilar(ret[s][1].findings[c][i],
                                              ret[s][1].findings[c][j], c)

\* C30: every result that scan_domain returns has the field execution_time.
\* (The result of line 823 is returned before line 865 sets it.)
C30_ResultHasExecutionTime ==
    \A s \in DOMAIN phase :
        phase[s] \in Returned => "execution_time" \in DOMAIN ret[s][1]

-----------------------------------------------------------------------------
(* SpecPool: the with block of lines 840-856 for a list of locators in     *)
(* which a locator may come more than once: the pool runs                  *)
(* _analyze_single_js on each, the orchestrator merges what comes back.    *)

PoolUrls == {"https://a.io/static/app.js", "https://cdn.a.io/lib.min.js"}

PoolInit ==
    /\ args = [fn |-> "_analyze_single_js", domain |-> "a.io",
               net |-> "pool", callers |-> {}, again |-> FALSE]
    /\ max_js_files = MaxCap
    /\ max_workers \in 1..MaxWorkers
    /\ found_js_urls = {}
    /\ analyzed_js = {}
    /\ lock = "free"
    /\ merging = {}
    /\ phase = [s \in {"main"} |-> "pool"]
    /\ ret = [s \in {"main"} |-> <<>>]
    /\ result = [s \in {"main"} |-> NewResult]
    /\ inline_result = [s \in {"main"} |-> <<>>]
    /\ \E js_urls \in UNION {[1..n -> PoolUrls] : n \in 1..MaxCalls} :
          futures = [s \in {"main"} |->
                        [i \in 1..Len(js_urls) |-> Future(js_urls[i])]]
    /\ IdleFrames({"main"})

PoolNext ==
    \/ \E i \in DOMAIN futures["main"] : WorkerStep("main", i)
    \/ \E i \in DOMAIN futures["main"] : ScanTakeCompleted("main", i)
    \/ \E i \in DOMAIN futures["main"] : ScanMerge("main", i)

SpecPool == PoolInit /\ [][PoolNext]_vars

-----------------------------------------------------------------------------
(* Claims about the calls of the pool, checked under SpecPool.             *)

\* the calls for the locator
CallsFor(js_url) ==
    {i \in DOMAIN futures["main"] : futures["main"][i].url = js_url}

\* the number of requests made for the calls of the set
RECURSIVE Requests(_)
Requests(calls) ==
    IF calls = {} THEN 0
    ELSE LET i == CHOOSE j \in calls : TRUE
         IN  futures["main"][i].fetches + Requests(calls \ {i})

\* C16: in every interleaving of the calls of the pool, at most one request
\* is made for a locator and at most one call for it is past the lookup of
\* line 770; every other call for it returns None without a request, also
\* when the request failed; the digest of a locator is in analyzed_js
\* before its request.
C16_LocatorFetchedAtMostOnce ==
    args.fn = "_analyze_single_js" =>
       \A js_url \in PoolUrls :
          /\ Requests(CallsFor(js_url)) <= 1
          /\ Cardinality({i \in CallsFor(js_url) :
                futures["main"][i].pc \in {"adding", "fetch"}
                  \/ futures["main"][i].fetches > 0}) <= 1
          /\ Cardinality({i \in CallsFor(js_url) :
                "findings" \in DOMAIN futures["main"][i].js_result}) <= 1
          /\ \A i \in CallsFor(js_url) :
                /\ (futures["main"][i].pc = "fetch"
                       \/ futures["main"][i].fetches > 0)
                     => UrlHash(js_url) \in analyzed_js
                /\ (futures["main"][i].pc \in {"done", "merging", "merged"}
                       /\ futures["main"][i].fetches = 0)
                     => DOMAIN futures["main"][i].js_result = {}

\* Three calls for one locator ended: the request of one of them failed and
\* the two others returned None without a request.
C16_Witness ==
    /\ args.fn = "_analyze_single_js"
    /\ \E js_url \in PoolUrls :
          /\ Cardinality(CallsFor(js_url)) = 3
          /\ \A i \in CallsFor(js_url) :
                futures["main"][i].pc \in {"done", "merged"}
          /\ \E i \in CallsFor(js_url) : FetchFailed(futures["main"][i])
          /\ Requests(CallsFor(js_url)) = 1

-----------------------------------------------------------------------------
(* SpecConc: two invocations of _extract_js_urls run concurrently on one   *)
(* scanner, each on its own page.                                          *)

ConcThreads == {"t1", "t2"}

ConcElements ==
    { Element("script", "/static/app.js"),
      Element("script", "//cdn.a.io/lib.min.js"),
      Element("import", "chunk.1.js") }

ConcPages ==
    {content \in Pages :
        /\ Len(content) <= 2
        /\ \A i \in 1..Len(content) : content[i] \in ConcElements}

ConcInit ==
    /\ args = [fn |-> "_extract_js_urls"]
    /\ ret = <<>>
    /\ phase = "concurrent"
    /\ max_js_files \in 1..MaxCap
    /\ found_js_urls = {}
    /\ lock = "free"
    /\ result = NewResult
    /\ page \in [ConcThreads ->
                   {LoadPage("https://a.io", content) : content \in ConcPages}]
    /\ xpc = [t \in ConcThreads |-> "start"]
    /\ xi = [t \in ConcThreads |-> 1]
    /\ xk = [t \in ConcThreads |-> 0]
    /\ new_js_urls = [t \in ConcThreads |-> <<>>]
    /\ PoolIdle

ConcNext == \E t \in ConcThreads : ExtractStep(t)

SpecConc == ConcInit /\ [][ConcNext]_vars

-----------------------------------------------------------------------------
(* Claims about concurrent invocations, checked under SpecConc.            *)

\* C2: for every interleaving of the invocations found_js_urls never holds
\* more than max_js_files locators, and no locator is in the list of new
\* locators of two invocations.
C2_ConcurrentCapAndNoDoubleReport ==
    args.fn = "_extract_js_urls" =>
        /\ Cardinality(found_js_urls) <= max_js_files
        /\ \A t \in ConcThreads : \A u \in ConcThreads \ {t} :
              Range(new_js_urls[t]) \cap Range(new_js_urls[u]) = {}

-----------------------------------------------------------------------------
(* SpecExtract: one invocation of _extract_js_urls on a scanner that has   *)
(* seen no locator, on a page of ExtractElements read from an https or an  *)
(* http base.                                                              *)

MaxPageLen == 2

ExtractPages == UNION {[1..n -> ExtractElements] : n \in 0..MaxPageLen}

ExtractInit ==
    /\ \E base_url \in BaseUrls : \E content \in ExtractPages :
          /\ args = [fn |-> "_extract_js_urls", base_url |-> base_url,
                     content |-> content]
          /\ page = [t \in {"main"} |-> LoadPage(base_url, content)]
    /\ ret = <<>>
    /\ phase = "called"
    /\ max_js_files = MaxCap
    /\ found_js_urls = {}
    /\ lock = "free"
    /\ result = NewResult
    /\ xpc = [t \in {"main"} |-> "start"]
    /\ xi = [t \in {"main"} |-> 1]
    /\ xk = [t \in {"main"} |-> 0]
    /\ new_js_urls = [t \in {"main"} |-> <<>>]
    /\ PoolIdle

\* line 361: return new_js_urls
ExtractReturn(t) ==
    /\ phase = "called"
    /\ xpc[t] = "done"
    /\ ret' = <<new_js_urls[t]>>
    /\ phase' = "returned"
    /\ UNCHANGED <<args, poolVars, scanVars, xVars>>

ExtractNext == ExtractStep("main") \/ ExtractReturn("main")

SpecExtract == ExtractInit /\ [][ExtractNext]_vars

-----------------------------------------------------------------------------
(* Claims about the locators, checked under SpecExtract.                   *)

\* the raw references of the page of the call
RawRefs == {args.content[i].ref : i \in 1..Len(args.content)}

\* C21: a protocol-relative reference is normalized to the scheme of the base
\* url followed by ':' and the reference.  The code does not do this: line
\* 374 writes 'https:' whatever the base url.
C21_ProtocolRelativeTakesBaseScheme ==
    args.fn = "_extract_js_urls" =>
        \A ref \in RawRefs :
            StartsWith(Strip(ref), "//") =>
                NormalizeJsUrl(ref, args.base_url)
                    = Scheme(args.base_url) \o ":" \o Strip(ref)


\* the schemes named as not fetchable at line 370
NonFetchable == {"data:", "javascript:", "mailto:", "blob:"}

\* C22: no recorded locator has, in any letter case, a scheme that is not
\* fetchable, none is fragment-only, and every recorded locator starts with
\* 'http://' or 'https://'.  The code does not do this: the test of line 370
\* is case-sensitive and urljoin returns a reference with a scheme of its
\* own as it is.
C22_RecordedLocatorsAreFetchable ==
    args.fn = "_extract_js_urls" =>
        \A url \in found_js_urls :
            /\ \A pre \in NonFetchable : ~StartsWith(Lower(url), pre)
            /\ ~StartsWith(url, "#")
            /\ StartsWith(url, "http://") \/ StartsWith(url, "https://")


\* what the call recorded, collected or returned
Reported ==
    found_js_urls \cup Range(new_js_urls["main"])
        \cup (IF phase = "returned" THEN Range(ret[1]) ELSE {})

\* the three conditions on a locator
JsSuffix(url) ==
    \/ (Len(url) >= 3 /\ SubSeq(url, Len(url) - 2, Len(url)) = ".js")
    \/ \E i \in 1..(Len(url) - 3) : SubSeq(url, i, i + 3) = ".js?"
AtMost800(url) == Len(url) <= 800
OffDenylist(url) ==
    \A low \in {Lower(url)} : \A pattern \in excluded_patterns :
        \A i \in 1..(Len(low) - Len(pattern) + 1) :
            SubSeq(low, i, i + Len(pattern) - 1) # pattern

\* The references of the model and the base urls, each pair with the
\* normalized reference and whether that meets the three conditions,
\* computed once.
KnownVerdicts ==
    { <<v[1], v[2], v[3], JsSuffix(v[3]) /\ AtMost800(v[3]) /\ OffDenylist(v[3])>> :
         v \in {<<element.ref, base_url, NormalizeJsUrl(element.ref, base_url)>> :
                   element \in ExtractElements, base_url \in BaseUrls} }
MeetsAll(url) == \E v \in KnownVerdicts : v[3] = url /\ v[4]
FailsOne(url) == \E v \in KnownVerdicts : v[3] = url /\ v[3] # "" /\ ~v[4]

\* C23: every locator recorded or returned ends in '.js' or contains '.js?',
\* has at most 800 characters and has, in lower case, no substring of the
\* denylist; a normalized reference that fails one of the three is neither
\* recorded nor returned.
C23_RecordedLocatorsAreValid ==
    args.fn = "_extract_js_urls" =>
        /\ \A url \in Reported : MeetsAll(url)
        /\ \A ref \in RawRefs : \A v \in KnownVerdicts :
              (v[1] = ref /\ v[2] = args.base_url /\ FailsOne(v[3]))
                 => v[3] \notin Reported

\* The call returned for a page with a reference of 801 characters, one of
\* 800 characters and one of the denylist in capitals: the one of 800
\* characters alone is recorded, or one of the pair when the page has two.
C23_Witness ==
    /\ args.fn = "_extract_js_urls"
    /\ phase = "returned"
    /\ args.content = << Element("script", LongRef(801)),
                         Element("script", LongRef(800)) >>
    /\ found_js_urls = {LongRef(800)}
    /\ ret[1] = <<LongRef(800)>>


=============================================================================
